---- MODULE Spec2Model ----
(***************************************************************************)
(* Event dispatch of the ARI client (src/ari/client.py): the listener map  *)
(* kept by Client.on_event and EventUnsubscriber.close, and the receive    *)
(* loop Client.__run that decodes each inbound message and calls the       *)
(* listeners registered for its type.                                      *)
(*                                                                         *)
(* The program is single-threaded.  While the loop is inside a listener    *)
(* callback (pc = "incb") the callback, which is arbitrary user code, may  *)
(* call on_event and EventUnsubscriber.close, return or raise.             *)
(***************************************************************************)
EXTENDS Naturals, Sequences, FiniteSets

\* ------------------------------------------------------------------ bounds
\* messages received from the WebSocket in one behaviour
MaxMsgs == 2
\* on_event and EventUnsubscriber.close calls in one behaviour
MaxCalls == 3

\* ------------------------------------------------------------ input values
EventTypes == {"ev", "other"}
\* callbacks handed to on_event; Python compares them with ==
Callbacks == {"L1", "L2"}

NoKwargs == [k \in {} |-> 0]
\* the (*args, **kwargs) bound by an on_event call
BoundArgs ==
    { [args |-> << >>, kwargs |-> NoKwargs],
      [args |-> <<1>>, kwargs |-> [k \in {"arg"} |-> 2]] }

\* message texts the WebSocket can deliver
TextEv1 == "{\"type\": \"ev\", \"data\": 1}"
TextOther == "{\"type\": \"other\", \"data\": 2}"
TextNoType == "{\"data\": 4}"
TextList == "[1]"
TextGarbage == "{not json"
MsgTexts ==
    {TextEv1, TextOther, TextNoType, TextList, TextGarbage}
\* ws.recv() returning None: the sentinel of iter(callable, None)
EndOfStream == "<None>"

\* ------------------------------------------------------------ JSON decoding
NoKey == "<absent>"
\* A decoded JSON object: its keys, and the values under "type" (a string in
\* every message modelled) and "data", NoKey and 0 for a key it does not have.
JObject(keys, type, data) ==
    [isdict |-> TRUE, keys |-> keys, type |-> type, data |-> data]
\* A decoded JSON value that is not an object (an array, a scalar)
JNotObject ==
    [isdict |-> FALSE, keys |-> {}, type |-> NoKey, data |-> 0]

\* A JSON value under a field of an event: null, or an object with its keys
\* and the value under "id" (NoKey without one)
JNull == [t |-> "null", keys |-> {}, id |-> NoKey]
JRecord(keys, id) == [t |-> "object", keys |-> keys, id |-> id]

\* A decoded event: a JSON object with "type" and the fields of `fields`
JEvent(type, fields) ==
    [isdict |-> TRUE, keys |-> {"type"} \cup DOMAIN fields, type |-> type,
     data |-> 0, fields |-> fields]

\* event texts that carry channels
TextStasisC1 == "{\"type\": \"StasisStart\", \"channel\": {\"id\": \"c1\"}}"
TextStasisC2 == "{\"type\": \"StasisStart\", \"channel\": {\"id\": \"c2\"}}"
TextStasisNone == "{\"type\": \"StasisStart\"}"
TextStasisEmpty == "{\"type\": \"StasisStart\", \"channel\": {}}"
TextStasisNoId == "{\"type\": \"StasisStart\", \"channel\": {\"name\": \"n\"}}"
TextDialBoth == "{\"type\": \"Dial\", \"caller\": {\"id\": \"c1\"}, \"peer\": {\"id\": \"c2\"}}"
TextDialPeer == "{\"type\": \"Dial\", \"caller\": null, \"peer\": {\"id\": \"c1\"}}"
ObjectMsgTexts ==
    {TextStasisC1, TextStasisC2, TextStasisNone, TextStasisEmpty,
     TextStasisNoId, TextDialBoth, TextDialPeer}

\* json.loads of an event text of ObjectMsgTexts
json_loads_event(msg_str) ==
    CASE msg_str = TextStasisC1 ->
           JEvent("StasisStart", [f \in {"channel"} |-> JRecord({"id"}, "c1")])
      [] msg_str = TextStasisC2 ->
           JEvent("StasisStart", [f \in {"channel"} |-> JRecord({"id"}, "c2")])
      [] msg_str = TextStasisNone ->
           JEvent("StasisStart", [f \in {} |-> JNull])
      [] msg_str = TextStasisEmpty ->
           JEvent("StasisStart", [f \in {"channel"} |-> JRecord({}, NoKey)])
      [] msg_str = TextStasisNoId ->
           JEvent("StasisStart", [f \in {"channel"} |-> JRecord({"name"}, NoKey)])
      [] msg_str = TextDialBoth ->
           JEvent("Dial", [f \in {"caller", "peer"} |->
                              IF f = "caller" THEN JRecord({"id"}, "c1")
                                              ELSE JRecord({"id"}, "c2")])
      [] msg_str = TextDialPeer ->
           JEvent("Dial", [f \in {"caller", "peer"} |->
                              IF f = "caller" THEN JNull ELSE JRecord({"id"}, "c1")])

\* json.loads(msg_str): the decoded value, or JSONDecodeError (ok = FALSE)
json_loads(msg_str) ==
    CASE msg_str = TextEv1 ->
           [ok |-> TRUE, value |-> JObject({"type", "data"}, "ev", 1)]
      [] msg_str = TextOther ->
           [ok |-> TRUE, value |-> JObject({"type", "data"}, "other", 2)]
      [] msg_str = TextNoType ->
           [ok |-> TRUE, value |-> JObject({"data"}, NoKey, 4)]
      [] msg_str = TextList ->
           [ok |-> TRUE, value |-> JNotObject]
      [] msg_str \in ObjectMsgTexts ->
           [ok |-> TRUE, value |-> json_loads_event(msg_str)]
      [] OTHER ->
           [ok |-> FALSE, value |-> JNotObject]

\* -------------------------------------------------------------------- state
VARIABLES
    event_listeners,    \* Client.event_listeners: event type -> list of (cb, args, kwargs)
    exception_handler,  \* Client.exception_handler: "log" (the default) or "raise"
    unsubscribers,      \* the EventUnsubscriber objects returned so far
    pc,                 \* "idle", "recv" (blocked in ws.recv), "incb" (in a callback), "exited"
    outcome,            \* how the call that left the loop ended
    listeners,          \* __run's local snapshot for the current message
    li,                 \* position of the for loop in the snapshot
    received,           \* history: message texts returned by ws.recv, in order
    calls,              \* history: callback invocations, in order of their start
    handled,            \* history: exception_handler invocations
    closes,             \* history: EventUnsubscriber.close calls
    skipped,            \* history: messages logged as "Invalid event" and skipped
    failed,             \* history: on_object_event and BaseObject.on_event calls that raised
    base_url_bound,     \* whether the name base_url resolves in the globals of ari.client
    websockets,         \* Client.websockets: the connections of the run calls in progress
    sockets,            \* the connections create_connection returned, by number
    frames,             \* the run calls in progress, innermost last
    runs,               \* history: Client.run calls
    closings,           \* history: Client.close calls
    http_closes,        \* number of close() calls made on the HTTP client
    op_spec,            \* the operation spec of the operation whose responses are promoted
    promoted,           \* history: the promote calls, each with what it returned
    invocations,        \* history: attribute accesses and operation calls on client, repositories, objects
    http_requests       \* history: the requests the operation callables performed

\* the state of Client.run and Client.close
connvars == <<base_url_bound, websockets, sockets, frames, runs, closings, http_closes>>

\* the state the dispatch actions leave alone
\* the state of the request path
requestvars == <<invocations, http_requests>>

othervars == <<failed, connvars, op_spec, promoted, requestvars>>

vars == <<event_listeners, exception_handler, unsubscribers, pc, outcome,
          listeners, li, received, calls, handled, closes, skipped, othervars>>

loopvars == <<pc, outcome, listeners, li, received, calls, handled, skipped>>

\* ------------------------------------------------------------ list helpers
\* Python tuple equality of two (event_cb, args, kwargs) tuples; oid is the
\* identity of the tuple object and takes no part in ==
TupleEq(a, b) == a.cb = b.cb /\ a.args = b.args /\ a.kwargs = b.kwargs

\* x in lst
Contains(lst, x) == \E i \in 1..Len(lst) : TupleEq(lst[i], x)

\* lst with position i dropped
DropAt(lst, i) == [j \in 1..(Len(lst) - 1) |-> IF j < i THEN lst[j] ELSE lst[j + 1]]

\* lst.remove(x): drops the first element equal to x
ListRemove(lst, x) ==
    IF Contains(lst, x)
    THEN DropAt(lst, CHOOSE i \in 1..Len(lst) :
                        /\ TupleEq(lst[i], x)
                        /\ \A j \in 1..(i - 1) : ~TupleEq(lst[j], x))
    ELSE lst

\* dict.get(key, []) of the listener map
ListenersOf(t) == IF t \in DOMAIN event_listeners THEN event_listeners[t] ELSE << >>

\* --------------------------------------------------------------------- Init
\* Client.__init__ (lines 80-83): no listeners, the logging exception handler
InitClient ==
    /\ event_listeners = << >>
    /\ exception_handler = "log"
    /\ unsubscribers = << >>
    /\ pc = "idle"
    /\ outcome = "none"
    /\ listeners = << >>
    /\ li = 0
    /\ received = << >>
    /\ calls = << >>
    /\ handled = << >>
    /\ closes = << >>
    /\ skipped = {}
    /\ failed = << >>
    /\ websockets = {}
    /\ sockets = << >>
    /\ frames = << >>
    /\ runs = << >>
    /\ closings = << >>
    /\ http_closes = 0
    /\ promoted = << >>
    /\ invocations = << >>
    /\ http_requests = << >>

\* The module ari.client binds no name base_url (line 172 reads one)
Init == InitClient /\ base_url_bound = FALSE /\ op_spec = << >>

\* on_event and close are called by the program around the loop, which runs
\* before the loop is entered and inside a listener callback
CallerRuns == pc \in {"idle", "incb"}
\* the callback invocation a call is made from, 0 outside the loop
InCall == IF pc = "incb" THEN Len(calls) ELSE 0

\* ----------------------------------------------------------------- on_event
\* The loop `for cb in listeners: if event_cb == cb[0]: listeners.remove(cb)`:
\* the list iterator walks by index over the list that remove() shortens.
\* mutant: the loop removes nothing
Dedup_none(lst, i, event_cb) == lst

RECURSIVE Dedup(_, _, _)
Dedup(lst, i, event_cb) ==
    IF i > Len(lst) THEN lst
    ELSE IF lst[i].cb = event_cb
         THEN Dedup(ListRemove(lst, lst[i]), i + 1, event_cb)
         ELSE Dedup(lst, i + 1, event_cb)

\* mutant: the new registration is put first
on_event_list_prepend(lst, callback_obj) ==
    <<callback_obj>> \o Dedup(lst, 1, callback_obj.cb)

\* mutant: no de-duplication
on_event_list_keep(lst, callback_obj) == Append(lst, callback_obj)

\* mutant: a registration of the same callback is replaced where it stands
on_event_list_in_place(lst, callback_obj) ==
    IF \E i \in 1..Len(lst) : lst[i].cb = callback_obj.cb
    THEN [i \in 1..Len(lst) |-> IF lst[i].cb = callback_obj.cb THEN callback_obj ELSE lst[i]]
    ELSE Append(lst, callback_obj)

\* the listener list of event_type after on_event: de-duplicated, then appended to
on_event_list(lst, callback_obj) ==
    Append(Dedup(lst, 1, callback_obj.cb), callback_obj)

on_event(event_type, event_cb, bound) ==
    /\ CallerRuns
    /\ Len(unsubscribers) + Len(closes) < MaxCalls
    /\ LET callback_obj == [cb |-> event_cb, args |-> bound.args,
                            kwargs |-> bound.kwargs, oid |-> Len(unsubscribers) + 1]
           new == on_event_list(ListenersOf(event_type), callback_obj)
       IN /\ event_listeners' =
                [t \in DOMAIN event_listeners \cup {event_type} |->
                    IF t = event_type THEN new ELSE event_listeners[t]]
          /\ unsubscribers' = Append(unsubscribers,
                [event_type |-> event_type, callback_obj |-> callback_obj,
                 at_recv |-> Len(received), in_call |-> InCall,
                 replaced |-> {r.oid : r \in {ListenersOf(event_type)[i] :
                                   i \in 1..Len(ListenersOf(event_type))}}
                              \ {new[i].oid : i \in 1..Len(new)}])
    /\ UNCHANGED <<exception_handler, closes>>
    /\ UNCHANGED loopvars
    /\ UNCHANGED othervars

\* --------------------------------------------------- EventUnsubscriber.close
\* mutant: close removes nothing
close_list_noop(lst, callback_obj) == lst

\* `if callback_obj in lst: lst.remove(callback_obj)`
close_list(lst, callback_obj) ==
    IF Contains(lst, callback_obj) THEN ListRemove(lst, callback_obj) ELSE lst

\* mutant: close takes the registration out of the list of every event type
EventUnsubscriber_close_every_type(u) ==
    /\ CallerRuns
    /\ Len(unsubscribers) + Len(closes) < MaxCalls
    /\ LET us == unsubscribers[u]
           old == event_listeners[us.event_type]
           new == close_list(old, us.callback_obj)
       IN /\ event_listeners' =
                [t \in DOMAIN event_listeners |->
                    close_list(event_listeners[t], us.callback_obj)]
          /\ closes' = Append(closes,
                [u |-> u, at_recv |-> Len(received), in_call |-> InCall,
                 nsubs |-> Len(unsubscribers),
                 present |-> (\E i \in 1..Len(old) : old[i].oid = us.callback_obj.oid),
                 removed |-> {old[i].oid : i \in 1..Len(old)}
                             \ {new[i].oid : i \in 1..Len(new)},
                 changed |-> (new # old)])
    /\ UNCHANGED <<exception_handler, unsubscribers>>
    /\ UNCHANGED loopvars
    /\ UNCHANGED othervars

EventUnsubscriber_close(u) ==
    /\ CallerRuns
    /\ Len(unsubscribers) + Len(closes) < MaxCalls
    /\ LET us == unsubscribers[u]
           old == event_listeners[us.event_type]
           new == close_list(old, us.callback_obj)
       IN /\ event_listeners' = [event_listeners EXCEPT ![us.event_type] = new]
          /\ closes' = Append(closes,
                [u |-> u, at_recv |-> Len(received), in_call |-> InCall,
                 nsubs |-> Len(unsubscribers),
                 present |-> (\E i \in 1..Len(old) : old[i].oid = us.callback_obj.oid),
                 removed |-> {old[i].oid : i \in 1..Len(old)}
                             \ {new[i].oid : i \in 1..Len(new)},
                 changed |-> (new # old)])
    /\ UNCHANGED <<exception_handler, unsubscribers>>
    /\ UNCHANGED loopvars
    /\ UNCHANGED othervars

\* ------------------------------------------------- client.exception_handler
\* Assignment of the public attribute: the default logs and returns, the
\* replacement used by the tests (raise_exceptions_handler) re-raises.
set_exception_handler(h) ==
    /\ pc = "idle"
    /\ h # exception_handler
    /\ exception_handler' = h
    /\ UNCHANGED <<event_listeners, unsubscribers, closes>>
    /\ UNCHANGED loopvars
    /\ UNCHANGED othervars

\* ---------------------------------------------------------------------- run
\* Client.run reads the name base_url (line 172), which is neither a local,
\* a global of the module, nor an attribute: the call raises NameError before
\* any connection is created.
run ==
    /\ pc = "idle"
    /\ pc' = "exited"
    /\ outcome' = "NameError"
    /\ UNCHANGED <<event_listeners, exception_handler, unsubscribers, closes,
                   listeners, li, received, calls, handled, skipped>>
    /\ UNCHANGED othervars

\* -------------------------------------------------------------------- __run
\* Client.__run(ws) is entered with an open WebSocket
Client__run ==
    /\ pc = "idle"
    /\ pc' = "recv"
    /\ UNCHANGED <<event_listeners, exception_handler, unsubscribers, closes,
                   outcome, listeners, li, received, calls, handled, skipped>>
    /\ UNCHANGED othervars

\* the decoded message the loop is dispatching
msg_json == json_loads(received[Len(received)]).value

\* mutant: the loop goes back to ws.recv() after the first listener
NextListener_first_only(cs, snapshot, i, m, msg) ==
    /\ li' = i
    /\ IF i <= Len(snapshot) /\ i <= 1
       THEN /\ pc' = "incb"
            /\ calls' = Append(cs,
                  [cb |-> snapshot[i].cb, oid |-> snapshot[i].oid, m |-> m,
                   msg |-> msg,
                   args |-> snapshot[i].args, kwargs |-> snapshot[i].kwargs,
                   state |-> "running"])
       ELSE /\ pc' = "recv"
            /\ calls' = cs

\* One step of `for listener in listeners` over the snapshot: call listener i
\* as callback(msg_json, *args, **kwargs), or, past the end of the snapshot,
\* go back to ws.recv().  cs is the invocation history so far, m the number
\* of the message.
NextListener(cs, snapshot, i, m, msg) ==
    /\ li' = i
    /\ IF i <= Len(snapshot)
       THEN /\ pc' = "incb"
            /\ calls' = Append(cs,
                  [cb |-> snapshot[i].cb, oid |-> snapshot[i].oid, m |-> m,
                   msg |-> msg,
                   \* args = args or (); kwargs = kwargs or {}
                   args |-> snapshot[i].args, kwargs |-> snapshot[i].kwargs,
                   state |-> "running"])
       ELSE /\ pc' = "recv"
            /\ calls' = cs

\* mutant: the listeners of every event type, whatever the message's type
Snapshot_every_type(type) == ListenersOf("ev") \o ListenersOf("other")

\* list(self.event_listeners.get(msg_json['type'], []))
Snapshot(type) == ListenersOf(type)

\* mutant: only the isinstance test
InvalidEvent_isinstance_only(v) == ~v.isdict

\* `not isinstance(msg_json, dict) or 'type' not in msg_json`
InvalidEvent(v) == ~v.isdict \/ "type" \notin v.keys

\* One iteration head of `for msg_str in iter(lambda: ws.recv(), None)`:
\* receive, decode, validate, snapshot the listeners and call the first one.
recv(msg_str) ==
    /\ pc = "recv"
    /\ IF msg_str = EndOfStream
       THEN /\ pc' = "exited"
            /\ outcome' = "returned"
            /\ UNCHANGED <<listeners, li, received, calls, skipped>>
       ELSE /\ Len(received) < MaxMsgs
            /\ received' = Append(received, msg_str)
            /\ LET r == json_loads(msg_str)
                   m == Len(received) + 1
               IN IF ~r.ok
                  THEN \* json.loads raises; nothing in __run catches it
                       /\ pc' = "exited"
                       /\ outcome' = "JSONDecodeError"
                       /\ UNCHANGED <<listeners, li, calls, skipped>>
                  ELSE IF InvalidEvent(r.value)
                  THEN \* log.error("Invalid event"); continue
                       /\ skipped' = skipped \cup {m}
                       /\ UNCHANGED <<pc, outcome, listeners, li, calls>>
                  ELSE /\ listeners' = Snapshot(r.value.type)
                       /\ NextListener(calls, Snapshot(r.value.type), 1, m, r.value)
                       /\ UNCHANGED <<outcome, skipped>>
    /\ UNCHANGED <<handled>>
    /\ UNCHANGED <<event_listeners, exception_handler, unsubscribers, closes>>
    /\ UNCHANGED othervars

\* mutant: the for loop walks the live list of the map, not a copy
IterList_live == ListenersOf(msg_json.type)

\* `for listener in listeners` iterates the local copy taken at line 147
IterList == listeners

\* calls with the running invocation marked as ended
Ended(how) == [calls EXCEPT ![Len(calls)].state = how]

\* the callback returns: the for loop goes on
callback_return ==
    /\ pc = "incb"
    /\ NextListener(Ended("returned"), IterList, li + 1, Len(received), msg_json)
    /\ UNCHANGED <<outcome, listeners, received, handled, skipped>>
    /\ UNCHANGED <<event_listeners, exception_handler, unsubscribers, closes>>
    /\ UNCHANGED othervars

\* mutant: the loop goes on whatever the handler does
HandlerResult_continue(h) == "continue"

\* mutant: the exception leaves the loop whatever the handler does
HandlerResult_propagate(h) == "propagate"

\* what `except Exception as e: self.exception_handler(e)` does with the
\* handler h: "continue" when the handler returns, "propagate" when it raises
HandlerResult(h) == IF h = "log" THEN "continue" ELSE "propagate"

\* the callback raises an Exception: the handler is called with it
callback_raise ==
    /\ pc = "incb"
    /\ handled' = Append(handled, [m |-> Len(received), call |-> Len(calls),
                                   handler |-> exception_handler])
    /\ IF HandlerResult(exception_handler) = "continue"
       THEN /\ NextListener(Ended("raised"), IterList, li + 1, Len(received), msg_json)
            /\ UNCHANGED outcome
       ELSE /\ calls' = Ended("raised")
            /\ pc' = "exited"
            /\ outcome' = "Exception"
            /\ UNCHANGED li
    /\ UNCHANGED <<listeners, received, skipped>>
    /\ UNCHANGED <<event_listeners, exception_handler, unsubscribers, closes>>
    /\ UNCHANGED othervars

\* --------------------------------------------------------------------- Next
Next ==
    \/ \E t \in EventTypes, cb \in Callbacks, b \in BoundArgs : on_event(t, cb, b)
    \/ \E u \in 1..Len(unsubscribers) : EventUnsubscriber_close(u)
    \/ \E h \in {"log", "raise"} : set_exception_handler(h)
    \/ run
    \/ Client__run
    \/ \E msg_str \in MsgTexts \cup {EndOfStream} : recv(msg_str)
    \/ callback_return
    \/ callback_raise

Spec == Init /\ [][Next]_vars

\* ======================================================= history vocabulary
Msgs == 1..Len(received)
Regs == 1..Len(unsubscribers)
CallIds == 1..Len(calls)

\* the event type of message m as the loop reads it, NoKey when m is dropped
TypeOf(m) ==
    LET r == json_loads(received[m])
    IN IF r.ok /\ r.value.isdict /\ "type" \in r.value.keys THEN r.value.type ELSE NoKey

\* the loop is past message m, however it got there
MsgOver(m) == m < Len(received) \/ (m = Len(received) /\ pc \in {"recv", "exited"})

\* the dispatch of message m ran to its end: no exception left the loop in it
DispatchDone(m) ==
    \/ m < Len(received)
    \/ m = Len(received) /\ (pc = "recv" \/ (pc = "exited" /\ outcome = "returned"))

\* message m is behind the loop: counting a dispatch that an exception ended
\* (aborted_too), or only a dispatch that ran to its end
Over(m, aborted_too) == IF aborted_too THEN MsgOver(m) ELSE DispatchDone(m)

\* registration o (the tuple made by the o-th on_event call) was taken out of
\* its list before message m was received, by a close or by de-duplication
RemovedBefore(o, m) ==
    \/ \E j \in 1..Len(closes) : o \in closes[j].removed /\ closes[j].at_recv < m
    \/ \E v \in Regs : o \in unsubscribers[v].replaced /\ unsubscribers[v].at_recv < m

\* registration o was in its type's list when message m arrived, and m has
\* that type
Registered(o, m) ==
    /\ unsubscribers[o].event_type = TypeOf(m)
    /\ unsubscribers[o].at_recv < m
    /\ ~RemovedBefore(o, m)

\* the invocations of registration o for message m
CallsOf(o, m) == {c \in CallIds : calls[c].oid = o /\ calls[c].m = m}

\* the listener (t, cb): callback cb subscribed to event type t
IsListener(o, t, cb) ==
    unsubscribers[o].event_type = t /\ unsubscribers[o].callback_obj.cb = cb
\* its invocations for message m, through whichever of its registrations
ListenerCalls(t, cb, m) ==
    {c \in CallIds : calls[c].m = m /\ IsListener(calls[c].oid, t, cb)}
\* no Unsubscriber of the listener has been closed
NeverUnsubscribed(t, cb) ==
    \A j \in 1..Len(closes) : ~IsListener(closes[j].u, t, cb)
\* the number of messages received before its first subscription
FirstSubscribed(t, cb) ==
    unsubscribers[CHOOSE o \in Regs :
        IsListener(o, t, cb) /\ \A v \in Regs : IsListener(v, t, cb) => o <= v].at_recv

\* ================================================================== claims
\* Delivery to the listeners (t, cb) that were never unsubscribed: at most one
\* invocation per message, none for a message of another type, exactly one
\* for each message of type t received after the first subscription and
\* behind the loop; the argument is the decoded message; invocations follow
\* the order of arrival.
C1_Delivery(aborted_too) ==
    \A t \in EventTypes, cb \in Callbacks :
        ((\E o \in Regs : IsListener(o, t, cb)) /\ NeverUnsubscribed(t, cb)) =>
            /\ \A m \in Msgs :
                  /\ Cardinality(ListenerCalls(t, cb, m)) <= 1
                  /\ TypeOf(m) # t => ListenerCalls(t, cb, m) = {}
                  /\ (TypeOf(m) = t /\ m > FirstSubscribed(t, cb) /\ Over(m, aborted_too)) =>
                        Cardinality(ListenerCalls(t, cb, m)) = 1
                  /\ \A c \in ListenerCalls(t, cb, m) :
                        calls[c].msg = json_loads(received[m]).value
            /\ \A c, d \in CallIds :
                  (IsListener(calls[c].oid, t, cb) /\ IsListener(calls[d].oid, t, cb)
                   /\ c < d) => calls[c].m < calls[d].m

C2_RegistrationOrder ==
    \A c, d \in CallIds :
        (calls[c].m = calls[d].m /\ calls[c].oid < calls[d].oid) =>
            c < d /\ calls[c].state # "running"

\* two listeners registered one after the other have both been invoked for
\* one message
C2_Witness ==
    \E c, d \in CallIds :
        /\ calls[c].m = calls[d].m /\ calls[c].oid < calls[d].oid
        /\ calls[c].cb # calls[d].cb
        /\ calls[d].state = "running"

\* close j was made by a listener on its own Unsubscriber, inside its callback
SelfClose(j) ==
    closes[j].in_call > 0 /\ calls[closes[j].in_call].oid = closes[j].u

\* The listener that closed its own Unsubscriber in message M was invoked
\* once for M and for nothing later; the other registrations of M's type get
\* M and the later messages of the type they are registered for.
C3_Unsubscribe(aborted_too) ==
    \A j \in 1..Len(closes) :
        SelfClose(j) =>
            LET c == closes[j].in_call
                u == closes[j].u
                M == calls[c].m
            IN /\ CallsOf(u, M) = {c}
               /\ \A k \in CallIds : calls[k].oid = u => calls[k].m <= M
               /\ \A o \in Regs \ {u}, m \in Msgs :
                     (m >= M /\ TypeOf(m) = TypeOf(M) /\ Registered(o, m)
                      /\ Over(m, aborted_too)) => Cardinality(CallsOf(o, m)) = 1

OtherClose(j) ==
    /\ closes[j].in_call > 0
    /\ calls[closes[j].in_call].oid # closes[j].u
    /\ Registered(closes[j].u, calls[closes[j].in_call].m)

\* B, unsubscribed by A during message M, is invoked once for M when M is
\* behind the loop, and for nothing later.
C4_UnsubscribeOther(aborted_too) ==
    \A j \in 1..Len(closes) :
        OtherClose(j) =>
            LET B == closes[j].u
                M == calls[closes[j].in_call].m
            IN /\ Cardinality(CallsOf(B, M)) <= 1
               /\ Over(M, aborted_too) => Cardinality(CallsOf(B, M)) = 1
               /\ \A k \in CallIds : calls[k].oid = B => calls[k].m <= M

ListenerRegs(t, cb) == {o \in Regs : IsListener(o, t, cb)}
LatestReg(t, cb) ==
    CHOOSE o \in ListenerRegs(t, cb) : \A v \in ListenerRegs(t, cb) : v <= o

\* C5: each event type's list holds at most one registration per callback, and
\* it is the one of the latest on_event call for that callback and type, with
\* that call's positional and keyword arguments; it is in the list as long as
\* no Unsubscriber of the listener is closed after that call.
C5_OneRegistrationPerCallback ==
    /\ \A t \in DOMAIN event_listeners :
          LET lst == event_listeners[t]
          IN \A i \in 1..Len(lst) :
                /\ \A k \in 1..Len(lst) : lst[k].cb = lst[i].cb => k = i
                /\ lst[i].oid = LatestReg(t, lst[i].cb)
                /\ lst[i] = unsubscribers[lst[i].oid].callback_obj
    /\ \A t \in EventTypes, cb \in Callbacks :
          (/\ ListenerRegs(t, cb) # {}
           /\ \A j \in 1..Len(closes) :
                 IsListener(closes[j].u, t, cb) => closes[j].nsubs < LatestReg(t, cb))
          => \E i \in 1..Len(event_listeners[t]) :
                event_listeners[t][i].oid = LatestReg(t, cb)

\* a callback subscribed twice to one type with different arguments: one
\* registration, with the arguments of the second call
C5_Witness ==
    \E t \in DOMAIN event_listeners, cb \in Callbacks :
        /\ Cardinality(ListenerRegs(t, cb)) = 2
        /\ \E o \in ListenerRegs(t, cb) :
              /\ o # LatestReg(t, cb)
              /\ unsubscribers[o].callback_obj.args
                    # unsubscribers[LatestReg(t, cb)].callback_obj.args
        /\ Len(event_listeners[t]) = 1
        /\ event_listeners[t][1] = unsubscribers[LatestReg(t, cb)].callback_obj

\* C6: closing an Unsubscriber takes out of the listener map no registration
\* other than the one made by the on_event call that returned it.
C6_CloseRemovesOnlyOwnRegistration ==
    \A j \in 1..Len(closes) : closes[j].removed \subseteq {closes[j].u}

\* C7: closing an Unsubscriber whose registration is no longer in the list (it
\* was closed before, or the registration was removed by de-duplication)
\* leaves the whole listener map unchanged.
C7_CloseIdempotent ==
    \A j \in 1..Len(closes) : ~closes[j].present => ~closes[j].changed

\* C8: with the default exception handler, when a listener raises while
\* handling message M the handler is invoked exactly once for that
\* invocation, the dispatch of M is not cut short (every listener registered
\* for M is invoked for it), and the loop goes on: every message after M is
\* dispatched to the listeners registered for it.
C8_ListenerExceptionIsolated ==
    \A c \in CallIds :
        calls[c].state = "raised" =>
            /\ Cardinality({h \in 1..Len(handled) : handled[h].call = c}) = 1
            /\ \A h \in 1..Len(handled) :
                  (handled[h].call = c /\ handled[h].handler = "log") =>
                      /\ handled[h].m = calls[c].m
                      /\ ~(pc = "exited" /\ outcome = "Exception")
                      /\ \A m \in Msgs, o \in Regs :
                            (m >= calls[c].m /\ Registered(o, m) /\ MsgOver(m))
                                => Cardinality(CallsOf(o, m)) = 1

\* a listener raised in the first message under the default handler; a later
\* listener was invoked for that message, and a listener for the next message
C8_Witness ==
    \E c \in CallIds :
        /\ calls[c].state = "raised" /\ calls[c].m = 1
        /\ exception_handler = "log"
        /\ \E d \in CallIds : d > c /\ calls[d].m = 1
        /\ \E d \in CallIds : calls[d].m = 2

\* C9: a received text that cannot be JSON-decoded does not raise out of the
\* receive loop.
C9_UndecodableSkipped ==
    \A m \in Msgs :
        ~json_loads(received[m]).ok => ~(pc = "exited" /\ outcome = "JSONDecodeError")

\* message m decoded to something that is not an object, or to an object
\* without "type"
Malformed(m) ==
    LET r == json_loads(received[m])
    IN r.ok /\ (~r.value.isdict \/ "type" \notin r.value.keys)

\* C10: a decoded message that is not an object or has no "type" field is
\* logged and skipped: no listener and no exception handler is invoked for
\* it, and the loop goes on to the next receive.
C10_InvalidEventDropped ==
    \A m \in Msgs :
        Malformed(m) =>
            /\ \A c \in CallIds : calls[c].m # m
            /\ \A h \in 1..Len(handled) : handled[h].m # m
            /\ m \in skipped
            /\ m = Len(received) =>
                  (pc = "recv" \/ (pc = "exited" /\ outcome = "returned"))

\* with listeners registered, the first message was dropped and the next one
\* dispatched
C10_Witness ==
    /\ Len(received) = 2
    /\ Malformed(1)
    /\ \E o \in Regs : unsubscribers[o].at_recv = 0
    /\ \E c \in CallIds : calls[c].m = 2

\* ============================================================ object events
\* Client.on_object_event, its closure extract_objects, BaseObject.on_event
\* and its closure fn_filter (src/ari/model.py), dispatched by the loop above.

\* ------------------------------------------------------------------ inputs
\* event types a caller subscribes to; "BadEventType" has no event model
ObjectEventTypes == {"StasisStart", "Dial", "BadEventType"}
\* the model ids handed to on_object_event by the on_<kind>_event methods used
ModelIds == {"Channel", "Bridge"}
\* the callback handed to on_object_event and to BaseObject.on_event
UserCallbacks == {"cb"}
NoBound == [args |-> << >>, kwargs |-> NoKwargs]

\* a property of an event model: its 'type' and its '$ref', NoKey when absent
Property(type, ref) == [type |-> type, ref |-> ref]

\* Client.event_models: event type -> the 'properties' of its model.  Dial
\* declares one Channel field by 'type' and one by '$ref'.
event_models ==
    [t \in {"StasisStart", "Dial"} |->
        IF t = "StasisStart"
        THEN [p \in {"type", "channel"} |->
                IF p = "type" THEN Property("string", NoKey)
                ELSE Property(NoKey, "#/definitions/Channel")]
        ELSE [p \in {"type", "caller", "peer"} |->
                IF p = "type" THEN Property("string", NoKey)
                ELSE IF p = "caller" THEN Property("Channel", NoKey)
                ELSE Property(NoKey, "#/definitions/Channel")]]

\* domain objects a caller holds: two channels and a mailbox, which is
\* constructed with event_reg None
DomainObjects ==
    { [kind |-> "Channel", id |-> "c1", event_reg |-> "on_channel_event"],
      [kind |-> "Channel", id |-> "c2", event_reg |-> "on_channel_event"],
      [kind |-> "Mailbox", id |-> "m1", event_reg |-> NoKey] }

\* ------------------------------------------------------------ registration
\* v.get('$ref') and v.get('$ref').endswith('/' + model_id), for the
\* references of event_models
RefEndsWith(ref, model_id) == ref # NoKey /\ ref = "#/definitions/" \o model_id

\* [k for (k, v) in properties.items()
\*    if v.get('type') == model_id or ($ref ends with '/' + model_id)]
obj_fields(event_type, model_id) ==
    {k \in DOMAIN event_models[event_type] :
        LET v == event_models[event_type][k]
        IN v.type = model_id \/ RefEndsWith(v.ref, model_id)}

\* mutant: nothing is validated when the listener is registered
RegistrationError_deferred(event_type, model_id) == "none"

\* the ValueError on_object_event raises before it registers anything:
\* no event model (line 264), or no field of the model id (line 272)
RegistrationError(event_type, model_id) ==
    IF event_type \notin DOMAIN event_models THEN "ValueError: Cannot find event model"
    ELSE IF obj_fields(event_type, model_id) = {} THEN "ValueError: no fields of type"
    ELSE "none"

\* the fields the closure extract_objects captures
ClosureFields(event_type, model_id) ==
    IF event_type \in DOMAIN event_models THEN obj_fields(event_type, model_id) ELSE {}

\* a call that raised: its error and the listener map before and after it
Failure(op, event_type, model_id, error) ==
    [op |-> op, event_type |-> event_type, model_id |-> model_id,
     error |-> error, before |-> event_listeners, after |-> event_listeners']

\* on_object_event(event_type, event_cb, factory_fn, model_id, *args, **kwargs):
\* raises ValueError, or registers a new extract_objects closure with on_event
on_object_event(event_type, event_cb, factory_fn, model_id, bound) ==
    /\ CallerRuns
    /\ Len(unsubscribers) + Len(closes) + Len(failed) < MaxCalls
    /\ IF RegistrationError(event_type, model_id) # "none"
       THEN /\ UNCHANGED <<event_listeners, exception_handler, unsubscribers, closes>>
            /\ UNCHANGED <<loopvars, connvars, op_spec, promoted, requestvars>>
            /\ failed' = Append(failed,
                  Failure("on_object_event", event_type, model_id,
                          RegistrationError(event_type, model_id)))
       ELSE on_event(event_type,
                     [fn |-> "extract_objects", event_cb |-> event_cb,
                      obj_fields |-> ClosureFields(event_type, model_id),
                      factory_fn |-> factory_fn,
                      closure |-> Len(unsubscribers) + 1],
                     bound)

\* a callback written by the caller
UserFn(name) == [fn |-> "user", name |-> name, self_id |-> NoKey]
\* the closure fn_filter of BaseObject.on_event: it captures self and fn
FnFilter(self, name) == [fn |-> "fn_filter", name |-> name, self_id |-> self.id]

\* mutant: the test of self.event_reg is left out
NoEventReg_unchecked(self) == FALSE

\* `if not self.event_reg` (model.py:211)
NoEventReg(self) == self.event_reg = NoKey

\* BaseObject.on_event(event_type, fn, *args, **kwargs): RuntimeError without
\* event_reg, else event_reg(event_type, fn_filter, ...), which is
\* client.on_<kind>_event, that is on_object_event with the kind's class and name
BaseObject_on_event(self, event_type, fn, bound) ==
    IF NoEventReg(self)
    THEN /\ CallerRuns
         /\ Len(unsubscribers) + Len(closes) + Len(failed) < MaxCalls
         /\ UNCHANGED <<event_listeners, exception_handler, unsubscribers, closes>>
         /\ UNCHANGED <<loopvars, connvars, op_spec, promoted, requestvars>>
         /\ failed' = Append(failed,
               Failure("BaseObject.on_event", event_type, self.kind, "RuntimeError"))
    ELSE on_object_event(event_type, FnFilter(self, fn), self.kind, self.kind, bound)

\* ---------------------------------------------------------------- dispatch
\* bool(v) of a JSON value: None and the object without keys are false
Truthy(v) == v.t = "object" /\ v.keys # {}

\* Python's None, a domain object, a dict of domain objects by field name
None == [t |-> "None"]
DomainObject(kind, id) == [t |-> "object", kind |-> kind, id |-> id]
Mapping(map) == [t |-> "dict", map |-> map]

\* factory_fn(client, as_json) for a class of model.py: BaseObject.__init__
\* sets self.id = id_generator.id_as_str(as_json), which is as_json['id'] for
\* Channel and Bridge: KeyError (ok = FALSE) for a record without "id"
factory_fn_call(factory_fn, as_json) ==
    [ok |-> "id" \in as_json.keys, obj |-> DomainObject(factory_fn, as_json.id)]

\* the fields of the closure for which event.get(obj_field) is true
TruthyFields(cb, event) ==
    {f \in cb.obj_fields : f \in DOMAIN event.fields /\ Truthy(event.fields[f])}

\* mutant: the mapping is unwrapped whenever it has one entry
PassedValue_unwrap_single_entry(nfields, obj) ==
    IF Cardinality(DOMAIN obj) = 1 THEN obj[CHOOSE f \in DOMAIN obj : TRUE]
    ELSE IF DOMAIN obj = {} THEN None
    ELSE Mapping(obj)

\* lines 289-293: `if len(obj_fields) == 1 and obj: obj = next(iter(obj.values()))
\* elif not obj: obj = None`, for the dict obj built at line 285
PassedValue(nfields, obj) ==
    IF nfields = 1 /\ DOMAIN obj # {} THEN obj[CHOOSE f \in DOMAIN obj : TRUE]
    ELSE IF DOMAIN obj = {} THEN None
    ELSE Mapping(obj)

\* extract_objects(event): the exception the factory raises, or the value it
\* passes as first argument to event_cb
extract_objects(cb, event) ==
    LET present == TruthyFields(cb, event)
        obj == [f \in present |-> factory_fn_call(cb.factory_fn, event.fields[f]).obj]
    IN IF \E f \in present : ~factory_fn_call(cb.factory_fn, event.fields[f]).ok
       THEN [raised |-> "KeyError", passed |-> None]
       ELSE [raised |-> "none",
             passed |-> PassedValue(Cardinality(cb.obj_fields), obj)]

\* mutant: every object passes the filter
fn_filter_any(self_id, objects) ==
    IF objects.t = "None" THEN [raised |-> "AttributeError", invoked |-> FALSE]
    ELSE [raised |-> "none", invoked |-> TRUE]

\* fn_filter(objects, event): whether it calls fn; objects.id of None is an
\* AttributeError
fn_filter(self_id, objects) ==
    IF objects.t = "dict"
    THEN [raised |-> "none",
          invoked |-> self_id \in {objects.map[f].id : f \in DOMAIN objects.map}]
    ELSE IF objects.t = "None"
    THEN [raised |-> "AttributeError", invoked |-> FALSE]
    ELSE [raised |-> "none", invoked |-> self_id = objects.id]

\* A Python call f(a1, .., an, *args, **kwargs) of a function whose first n
\* parameters are named `params`: TypeError ("got multiple values for
\* argument") when kwargs holds one of these names
MultipleValues(params, kwargs) == DOMAIN kwargs \cap params # {}

\* What the listener invocation `call` of an extract_objects closure does
\* before the caller's callback runs: the exception raised on the way (error),
\* whether the caller's callback is called (invoked) and with which first
\* argument (passed).  The loop calls extract_objects(event, *args, **kwargs)
\* as callback(msg_json, *args, **kwargs), and extract_objects calls
\* fn_filter(objects, event, *args, **kwargs) as event_cb(obj, event, *args,
\* **kwargs).
Invocation(call) ==
    LET x == extract_objects(call.cb, call.msg)
    IN IF MultipleValues({"event"}, call.kwargs)
       THEN [error |-> "TypeError", invoked |-> FALSE, passed |-> None]
       ELSE IF x.raised # "none"
       THEN [error |-> x.raised, invoked |-> FALSE, passed |-> None]
       ELSE IF call.cb.event_cb.fn = "user"
       THEN [error |-> "none", invoked |-> TRUE, passed |-> x.passed]
       ELSE IF MultipleValues({"objects", "event"}, call.kwargs)
       THEN [error |-> "TypeError", invoked |-> FALSE, passed |-> None]
       ELSE [error |-> fn_filter(call.cb.event_cb.self_id, x.passed).raised,
             invoked |-> fn_filter(call.cb.event_cb.self_id, x.passed).invoked,
             passed |-> x.passed]

\* the listener returns: nothing raised on the way, the caller's callback, if
\* called, returned
object_callback_return ==
    /\ pc = "incb"
    /\ Invocation(calls[Len(calls)]).error = "none"
    /\ callback_return

\* the listener raises: the factory or fn_filter raised, or the caller's
\* callback did
object_callback_raise ==
    /\ pc = "incb"
    /\ \/ Invocation(calls[Len(calls)]).error # "none"
       \/ Invocation(calls[Len(calls)]).invoked
    /\ callback_raise

\* The caller subscribes its object listeners before it enters the loop; the
\* on_<kind>_event methods pass the kind's class and name to on_object_event.
NextObject ==
    \/ \E t \in ObjectEventTypes, cb \in UserCallbacks, k \in ModelIds :
          pc = "idle" /\ on_object_event(t, UserFn(cb), k, k, NoBound)
    \/ \E self \in DomainObjects, t \in {"StasisStart", "Dial"}, fn \in UserCallbacks :
          pc = "idle" /\ BaseObject_on_event(self, t, fn, NoBound)
    \/ \E h \in {"log", "raise"} : set_exception_handler(h)
    \/ Client__run
    \/ \E msg_str \in ObjectMsgTexts \cup {EndOfStream} : recv(msg_str)
    \/ object_callback_return
    \/ object_callback_raise

SpecObject == Init /\ [][NextObject]_vars

\* ------------------------------------------- object listeners with arguments
\* the (*args, **kwargs) a caller binds with a domain object's on_event
\* (websocket_test.py:246-250): none, a positional, a keyword, and keywords
\* that have the name of a parameter of extract_objects or fn_filter
ObjectBoundArgs ==
    { NoBound,
      [args |-> <<1>>, kwargs |-> NoKwargs],
      [args |-> << >>, kwargs |-> [k \in {"arg_cb"} |-> 2]],
      [args |-> << >>, kwargs |-> [k \in {"event"} |-> 3]],
      [args |-> << >>, kwargs |-> [k \in {"objects"} |-> 4]] }

\* the objects of DomainObjects that `channel` registers listeners on, and
\* the mailbox
ArgsObjects == {self \in DomainObjects : self.id \in {"c1", "m1"}}

\* The caller registers listeners with bound arguments on its objects, the
\* same callback more than once, and enters the loop.
NextObjectArgs ==
    \/ \E self \in ArgsObjects, t \in {"StasisStart", "BadEventType"},
          fn \in UserCallbacks, b \in ObjectBoundArgs :
          pc = "idle" /\ BaseObject_on_event(self, t, fn, b)
    \/ \E h \in {"log", "raise"} : set_exception_handler(h)
    \/ Client__run
    \/ \E msg_str \in {TextStasisC1, TextStasisC2, EndOfStream} : recv(msg_str)
    \/ object_callback_return
    \/ object_callback_raise

SpecObjectArgs == Init /\ [][NextObjectArgs]_vars

\* ------------------------------------------------- object-event vocabulary
\* the closure registered by the o-th on_event call
ClosureOf(o) == unsubscribers[o].callback_obj.cb
\* registration o was made through a domain object's on_event
ObjectListener(o) == ClosureOf(o).event_cb.fn = "fn_filter"
\* what the closure of registration o extracts from message m
Extracted(o, m) == extract_objects(ClosureOf(o), json_loads(received[m]).value)
\* the invocations of the caller's callback by registration o for message m
FnCalls(o, m) == {c \in CallsOf(o, m) : Invocation(calls[c]).invoked}

\* ------------------------------------------------------------------ claims
\* For a registration made through a domain object with identity Y and an
\* event of its type from which the registration's kind extracts one object
\* with identity X: no invocation of the callback when Y # X; at most one when
\* Y = X, and exactly one once the event is behind the loop.
C11_Filter(aborted_too) ==
    \A o \in Regs, m \in Msgs :
        (/\ ObjectListener(o)
         /\ Registered(o, m)
         /\ Extracted(o, m).raised = "none"
         /\ Extracted(o, m).passed.t = "object") =>
            IF ClosureOf(o).event_cb.self_id = Extracted(o, m).passed.id
            THEN /\ Cardinality(FnCalls(o, m)) <= 1
                 /\ Over(m, aborted_too) => Cardinality(FnCalls(o, m)) = 1
            ELSE FnCalls(o, m) = {}

HasObjectFields(event_type, model_id) ==
    /\ event_type \in DOMAIN event_models
    /\ \E k \in DOMAIN event_models[event_type] :
          \/ event_models[event_type][k].type = model_id
          \/ event_models[event_type][k].ref = "#/definitions/" \o model_id

\* C12: an on_object_event call for an event type without an event model, or
\* whose model declares no field of the requested kind, raises at the call and
\* leaves the listener map as it was: every listener in the map, and every
\* listener the loop invokes, was registered for a type and kind with at
\* least one declared field.
C12_BadRegistrationFailsAtCall ==
    /\ \A j \in 1..Len(failed) :
          failed[j].op = "on_object_event" =>
              /\ ~HasObjectFields(failed[j].event_type, failed[j].model_id)
              /\ failed[j].error # "none"
              /\ failed[j].after = failed[j].before
    /\ \A o \in Regs :
          HasObjectFields(unsubscribers[o].event_type, ClosureOf(o).factory_fn)
    /\ \A t \in DOMAIN event_listeners : \A i \in 1..Len(event_listeners[t]) :
          HasObjectFields(t, event_listeners[t][i].cb.factory_fn)
    /\ \A c \in CallIds :
          HasObjectFields(calls[c].msg.type, calls[c].cb.factory_fn)

\* with a listener registered, a call for an event type without a model and
\* a call for a kind the model has no field of both raised, and the map is
\* what it was
C12_Witness ==
    /\ Len(failed) = 2
    /\ failed[1].error = "ValueError: Cannot find event model"
    /\ failed[2].error = "ValueError: no fields of type"
    /\ failed[2].event_type = "StasisStart"
    /\ failed[1].before # << >>
    /\ event_listeners = failed[1].before

\* the declared fields of F that event e carries with a value that is not
\* null, and, with nonempty_only, not the object without keys either
PresentFields(F, e, nonempty_only) ==
    {f \in F : /\ f \in DOMAIN e.fields
               /\ e.fields[f].t # "null"
               /\ nonempty_only => e.fields[f].keys # {}}

\* The first argument of event_cb in every listener invocation that reaches
\* event_cb: None when no declared field is present; the object promoted from
\* the field when one field is declared and it is present; else the mapping
\* from each present declared field to the object promoted from it.
C13_Passed(nonempty_only) ==
    \A c \in CallIds :
        LET cb == calls[c].cb
            e == calls[c].msg
            F == cb.obj_fields
            P == PresentFields(F, e, nonempty_only)
            x == extract_objects(cb, e)
        IN x.raised = "none" =>
              /\ P = {} => x.passed = [t |-> "None"]
              /\ (Cardinality(F) = 1 /\ P # {}) =>
                    \A f \in P : x.passed = [t |-> "object", kind |-> cb.factory_fn,
                                             id |-> e.fields[f].id]
              /\ (Cardinality(F) > 1 /\ P # {}) =>
                    /\ x.passed.t = "dict"
                    /\ DOMAIN x.passed.map = P
                    /\ \A f \in P : x.passed.map[f] =
                          [t |-> "object", kind |-> cb.factory_fn, id |-> e.fields[f].id]

\* C13 as stated: the value passed to the callback is None when no declared
\* field is present and non-null in the event, the bare promoted object when
\* one field is declared and it is present, otherwise a mapping from each
\* present declared field to its promoted object (also when only one of
\* several declared fields is present).
C13_ExtractedValue == C13_Passed(FALSE)

\* C13 amended: the same, a field counting as present when its value is true
\* in Python's sense: neither null nor an empty object.
C13_ExtractedValueTruthy == C13_Passed(TRUE)

\* one listener got a mapping with the single present field of two declared
\* ones, another the bare object of the one declared field
C13_Witness ==
    \E c, d \in CallIds :
        /\ calls[c].state = "returned" /\ calls[d].state = "returned"
        /\ calls[c].msg = json_loads_event(TextDialPeer)
        /\ Invocation(calls[c]).passed.t = "dict"
        /\ DOMAIN Invocation(calls[c]).passed.map = {"peer"}
        /\ calls[d].msg = json_loads_event(TextStasisC1)
        /\ Invocation(calls[d]).passed = [t |-> "object", kind |-> "Channel", id |-> "c1"]

\* ============================================================== connections
\* Client.run and Client.close (src/ari/client.py): the set of open
\* connections, the WebSocket of each run call and its cleanup.  The dispatch
\* of a message is one listener callback here; it is in Spec in full.  The
\* WebSocket is the websocket library's: recv returns a text or None or
\* raises, send_close and close return or raise.

\* ------------------------------------------------------------------ bounds
\* run calls, close calls, and texts returned by one connection
MaxRuns == 2
MaxCloses == 2
MaxConnMsgs == 2

\* ------------------------------------------------------------------ inputs
\* the apps argument of run: a list of strings (a string is passed as it is)
Apps == { [islist |-> TRUE, names |-> <<"a", "b">>] }

\* ','.join(names)
RECURSIVE join(_)
join(names) ==
    IF Len(names) = 0 THEN ""
    ELSE IF Len(names) = 1 THEN names[1]
    ELSE names[1] \o "," \o join(Tail(names))

\* `if isinstance(apps, list): apps = ','.join(apps)`
JoinedApps(apps) == IF apps.islist THEN join(apps.names) ELSE apps.names[1]

\* In SpecConn the importer of ari.client may have bound the name base_url
InitConn == InitClient /\ base_url_bound \in BOOLEAN /\ op_spec = << >>

\* the variables of the listener map and of the dispatch loop of Spec
clientvars ==
    <<event_listeners, unsubscribers, closes, loopvars, failed, op_spec, promoted,
      requestvars>>

\* the innermost run call in progress
Top == frames[Len(frames)]
\* run and close are called by the program outside any run call, or by a
\* listener callback of the innermost one
ConnCallerRuns == IF frames = << >> THEN TRUE ELSE Top.at = "incb"

\* a record of the history of run calls
RunRecord(apps, ws, how) ==
    [apps |-> JoinedApps(apps), ws |-> ws, outcome |-> how,
     received |-> 0, dispatched |-> 0, sentinel |-> FALSE, raised_by |-> "none",
     listener_raised |-> FALSE]

\* ---------------------------------------------------------------------- run
\* Client.run(apps) up to the call of __run: NameError at line 172 when the
\* name base_url is unbound; else websocket.create_connection raises, or
\* returns the connection that line 206 adds to self.websockets
Client_run(apps) ==
    /\ ConnCallerRuns
    /\ Len(runs) < MaxRuns
    /\ IF ~base_url_bound
       THEN /\ runs' = Append(runs, RunRecord(apps, 0, "NameError"))
            /\ UNCHANGED <<websockets, sockets, frames>>
       ELSE \E connected \in BOOLEAN :
               IF ~connected
               THEN /\ runs' = Append(runs, RunRecord(apps, 0, "ConnectError"))
                    /\ UNCHANGED <<websockets, sockets, frames>>
               ELSE /\ sockets' = Append(sockets,
                          [app |-> JoinedApps(apps), state |-> "open",
                           send_close_calls |-> 0, close_calls |-> 0, recvs |-> 0])
                    /\ websockets' = websockets \cup {Len(sockets) + 1}
                    /\ frames' = Append(frames,
                          [run |-> Len(runs) + 1, ws |-> Len(sockets) + 1,
                           at |-> "recv", raised |-> FALSE])
                    /\ runs' = Append(runs, RunRecord(apps, Len(sockets) + 1, "running"))
    /\ UNCHANGED <<base_url_bound, closings, http_closes, exception_handler>>
    /\ UNCHANGED clientvars

\* frames with the innermost run call at `at`
TopAt(at, raised) ==
    [frames EXCEPT ![Len(frames)].at = at, ![Len(frames)].raised = raised]

\* what ws.recv() and json.loads give the loop
RecvResults == {"event", "None", "raise"}

\* One iteration head of __run (lines 141-154) in the innermost run call: a
\* text is dispatched to the listener callback; an exception, of recv or of
\* json.loads, leaves the loop; None ends it.
ws_recv(result) ==
    /\ frames # << >> /\ Top.at = "recv"
    /\ LET r == Top.run
           ws == Top.ws
       IN CASE result = "event" ->
                 /\ sockets[ws].recvs < MaxConnMsgs
                 /\ sockets' = [sockets EXCEPT ![ws].recvs = @ + 1]
                 /\ runs' = [runs EXCEPT ![r].received = @ + 1, ![r].dispatched = @ + 1]
                 /\ frames' = TopAt("incb", FALSE)
            [] result = "None" ->
                 /\ runs' = [runs EXCEPT ![r].sentinel = TRUE]
                 /\ frames' = TopAt("finally", FALSE)
                 /\ UNCHANGED sockets
            [] result = "raise" ->
                 /\ runs' = [runs EXCEPT ![r].raised_by = "loop"]
                 /\ frames' = TopAt("finally", TRUE)
                 /\ UNCHANGED sockets
    /\ UNCHANGED <<base_url_bound, websockets, closings, http_closes, exception_handler>>
    /\ UNCHANGED clientvars

\* the listener callback returns: the loop goes back to ws.recv()
conn_callback_return ==
    /\ frames # << >> /\ Top.at = "incb"
    /\ frames' = TopAt("recv", FALSE)
    /\ UNCHANGED <<base_url_bound, websockets, sockets, runs, closings, http_closes,
                   exception_handler>>
    /\ UNCHANGED clientvars

\* the listener callback raises: the exception handler returns, or raises
\* out of the loop (lines 155-156)
conn_callback_raise ==
    /\ frames # << >> /\ Top.at = "incb"
    /\ IF HandlerResult(exception_handler) = "continue"
       THEN /\ frames' = TopAt("recv", FALSE)
            /\ runs' = [runs EXCEPT ![Top.run].listener_raised = TRUE]
       ELSE /\ frames' = TopAt("finally", TRUE)
            /\ runs' = [runs EXCEPT ![Top.run].raised_by = "callback",
                                    ![Top.run].listener_raised = TRUE]
    /\ UNCHANGED <<base_url_bound, websockets, sockets, closings, http_closes,
                   exception_handler>>
    /\ UNCHANGED clientvars

\* mutant: an exception of ws.close() skips the removal
FinallyRemoves_unless_close_raises(close_raises) == ~close_raises

\* whether the finally block reaches `self.websockets.remove(ws)`: the
\* exception of ws.close() is caught at line 212
FinallyRemoves(close_raises) == TRUE

\* The finally block of run (lines 209-215): ws.close(), which may raise, then
\* the removal from self.websockets; run returns, or the exception of the
\* loop goes on to the caller.
run_finally(close_raises) ==
    /\ frames # << >> /\ Top.at = "finally"
    /\ sockets' = [sockets EXCEPT
          ![Top.ws].close_calls = @ + 1,
          ![Top.ws].state = IF close_raises THEN @ ELSE "closed"]
    /\ websockets' = IF FinallyRemoves(close_raises) /\ Top.ws \in websockets
                     THEN websockets \ {Top.ws} ELSE websockets
    /\ runs' = [runs EXCEPT
          ![Top.run].outcome = IF Top.raised THEN "Exception" ELSE "returned"]
    /\ frames' = SubSeq(frames, 1, Len(frames) - 1)
    /\ UNCHANGED <<base_url_bound, closings, http_closes, exception_handler>>
    /\ UNCHANGED clientvars

\* -------------------------------------------------------------------- close
\* what send_close() and close() do on one connection during Client.close:
\* both return, send_close raises, or close raises
CloseOutcomes == {"closed", "send_close raises", "close raises"}

\* mutant: the loop ends at the first connection that fails
CloseLoop_until_failure(members, out) ==
    {w \in members : \A v \in members : (out[v] # "closed") => w <= v}

\* the connections `for ws in list(self.websockets)` calls send_close on:
\* every member of the copy, the exceptions being caught inside the loop
CloseLoop(members, out) == members

\* whether Client.close raises to its caller: lines 106, 114 and 119 catch
\* every Exception
CloseRaises(out, http_raises) == FALSE

\* mutant: close empties the set
SetAfterClose_drained(members) == {}

\* self.websockets when Client.close returns: close removes nothing
SetAfterClose(members) == members

\* Client.close(): send_close() and close() on each connection of a copy of
\* self.websockets, then close() on the HTTP client
Client_close ==
    /\ ConnCallerRuns
    /\ Len(closings) < MaxCloses
    /\ \E out \in [websockets -> CloseOutcomes], http_raises \in BOOLEAN :
          LET tried == CloseLoop(websockets, out)
          IN /\ sockets' =
                   [w \in DOMAIN sockets |->
                      IF w \in tried
                      THEN [sockets[w] EXCEPT
                              !.send_close_calls = @ + 1,
                              !.close_calls = IF out[w] = "send_close raises"
                                              THEN @ ELSE @ + 1,
                              !.state = IF out[w] = "closed" THEN "closed" ELSE @]
                      ELSE sockets[w]]
             /\ websockets' = SetAfterClose(websockets)
             /\ http_closes' = http_closes + 1
             /\ closings' = Append(closings,
                   [members |-> websockets, tried |-> tried, out |-> out,
                    http_raises |-> http_raises,
                    http_closes |-> http_closes + 1,
                    raised |-> CloseRaises(out, http_raises),
                    in_run |-> IF frames = << >> THEN 0 ELSE Top.run,
                    at_msg |-> IF frames = << >> THEN 0 ELSE runs[Top.run].dispatched,
                    after |-> SetAfterClose(websockets)])
    /\ UNCHANGED <<base_url_bound, frames, runs, exception_handler>>
    /\ UNCHANGED clientvars

\* client.exception_handler is assigned before the first call of run or close
conn_set_exception_handler(h) ==
    /\ runs = << >> /\ closings = << >>
    /\ h # exception_handler
    /\ exception_handler' = h
    /\ UNCHANGED connvars
    /\ UNCHANGED clientvars

NextConn ==
    \/ \E apps \in Apps : Client_run(apps)
    \/ \E result \in RecvResults : ws_recv(result)
    \/ conn_callback_return
    \/ conn_callback_raise
    \/ \E close_raises \in BOOLEAN : run_finally(close_raises)
    \/ Client_close
    \/ \E h \in {"log", "raise"} : conn_set_exception_handler(h)

SpecConn == InitConn /\ [][NextConn]_vars

\* ------------------------------------------------- claims on run and close
\* run call r has exited after __run was entered
RunExited(r) == runs[r].outcome \in {"returned", "Exception"}
\* close call k was made by a listener callback of a run call
ClosedInCallback(k) == closings[k].in_run # 0

\* C14: whenever run exits after having opened a connection (by end-of-stream,
\* by an exception out of the receive loop, or after an external close),
\* close() has been called on that connection and it is no longer in the
\* open-connection set, also when that close() raised.
C14_RunCleansUp ==
    \A r \in DOMAIN runs :
        (runs[r].ws # 0 /\ RunExited(r)) =>
            /\ runs[r].ws \notin websockets
            /\ sockets[runs[r].ws].close_calls >= 1

\* a run call left its loop by an exception after Client.close had tried its
\* connection, every close() on the connection raised, and the connection is
\* out of the set
C14_Witness ==
    \E r \in DOMAIN runs, k \in DOMAIN closings :
        /\ runs[r].ws # 0 /\ runs[r].outcome = "Exception"
        /\ runs[r].raised_by = "loop"
        /\ closings[k].in_run = r
        /\ closings[k].out[runs[r].ws] = "close raises"
        /\ sockets[runs[r].ws].state = "open"
        /\ sockets[runs[r].ws].close_calls >= 2
        /\ runs[r].ws \notin websockets

\* C15: every run(apps) call on which create_connection does not fail opens
\* one connection for the joined application names, has it in the
\* open-connection set while it runs, dispatches every message received
\* before the sentinel, and returns once the transport returned the sentinel.
C15_RunOpensOneConnection ==
    \A r \in DOMAIN runs :
        runs[r].outcome # "ConnectError" =>
            /\ runs[r].ws # 0
            /\ sockets[runs[r].ws].app = runs[r].apps
            /\ \A q \in DOMAIN runs : runs[q].ws = runs[r].ws => q = r
            /\ runs[r].outcome = "running" => runs[r].ws \in websockets
            /\ runs[r].dispatched = runs[r].received
            /\ runs[r].outcome = "returned" => runs[r].sentinel
            /\ runs[r].sentinel => runs[r].outcome \in {"running", "returned"}

\* C16: close() calls send_close on every connection that is in the
\* open-connection set when it is called, whatever send_close() or close()
\* of another connection does, then closes the HTTP client, and raises
\* nothing to its caller.
C16_CloseTriesEveryConnection ==
    \A k \in DOMAIN closings :
        /\ closings[k].tried = closings[k].members
        /\ \A w \in closings[k].members : sockets[w].send_close_calls >= 1
        /\ closings[k].http_closes = k
        /\ ~closings[k].raised

\* a close call found two connections, the first of them failed in
\* send_close, the HTTP client's close raised, and both were tried
C16_Witness ==
    \E k \in DOMAIN closings :
        /\ Cardinality(closings[k].members) = 2
        /\ \E v, w \in closings[k].members :
              /\ v < w
              /\ closings[k].out[v] = "send_close raises"
              /\ closings[k].out[w] = "closed"
              /\ sockets[w].state = "closed"
        /\ closings[k].http_raises
        /\ closings[k].tried = closings[k].members

\* C17: after close() is called from inside a listener callback during the
\* dispatch of message M of a run call, that run call dispatches no message
\* after M and its loop ends by end-of-stream, not by an exception of the
\* receive loop.
C17_CloseEndsLoop ==
    \A k \in DOMAIN closings :
        ClosedInCallback(k) =>
            /\ runs[closings[k].in_run].dispatched = closings[k].at_msg
            /\ runs[closings[k].in_run].raised_by # "loop"

PresentRegs ==
    UNION {{event_listeners[t][i].oid : i \in 1..Len(event_listeners[t])} :
              t \in DOMAIN event_listeners}
\* the registrations that a close or a de-duplication took out of the map
TakenOut ==
    UNION ({closes[j].removed : j \in 1..Len(closes)}
           \cup {unsubscribers[v].replaced : v \in Regs})

\* C19: every registration in the listener map is the tuple made by an
\* on_event call (also one made through on_object_event), sits in the list of
\* that call's event type, once; its Unsubscriber has not been closed since and
\* no later on_event call for the same type and callback has de-duplicated
\* it.  Every registration made is in the map unless a close or a
\* de-duplication took it out: the steps of the dispatch add and remove none.
C19_ListenerMapIsSubscriptions ==
    /\ \A t \in DOMAIN event_listeners :
          LET lst == event_listeners[t]
          IN \A i \in 1..Len(lst) :
                /\ lst[i].oid \in Regs
                /\ unsubscribers[lst[i].oid].event_type = t
                /\ unsubscribers[lst[i].oid].callback_obj = lst[i]
                /\ \A k \in 1..Len(lst) : lst[k].oid = lst[i].oid => k = i
                /\ \A j \in 1..Len(closes) : closes[j].u # lst[i].oid
                /\ \A v \in Regs :
                      (v > lst[i].oid /\ IsListener(v, t, lst[i].cb)) => FALSE
    /\ PresentRegs = Regs \ TakenOut

\* a message was dispatched to two listeners, one of them closed its
\* Unsubscriber and is out of the map, the other is in it
C19_Witness ==
    \E c, d \in CallIds, j \in 1..Len(closes) :
        /\ c # d /\ calls[c].m = 1 /\ calls[d].m = 1
        /\ calls[c].oid = closes[j].u
        /\ closes[j].in_call = c
        /\ closes[j].removed = {calls[c].oid}
        /\ calls[d].oid \in PresentRegs
        /\ pc = "exited"

\* ================================================================== promote
\* promote(client, bravado_response, operation_spec) of src/ari/model.py, as
\* a function of the response and of the responses the operation declares.

\* ------------------------------------------------------------------ bounds
\* promote calls
MaxPromotes == 1

\* ------------------------------------------------------------------ inputs
\* response bodies after deserialization: None, a dict, a list, a string
BodyDict(fields) == [t |-> "jdict", fields |-> fields]
BodyList(items) == [t |-> "list", items |-> items]
BodyStr(text) == [t |-> "str", text |-> text]
Bodies ==
    { None,
      BodyDict([k \in {"id"} |-> "c1"]),
      BodyDict([k \in {"name"} |-> "n1"]),
      BodyList(<< >>),
      BodyList(<<BodyDict([k \in {"id"} |-> "c1"]), None,
                 BodyDict([k \in {"id"} |-> "c2"])>>),
      BodyList(<<BodyDict([k \in {"id"} |-> "c1"]),
                 BodyDict([k \in {"name"} |-> "n1"])>>),
      BodyStr("OK") }

\* the status codes of the responses .result() lets through
StatusCodes == {200, 201, 204}
\* an object with the attributes status_code and result, or the
\* deserialized result itself
IncomingResponse(status_code, result) ==
    [wrapper |-> TRUE, status_code |-> status_code, result |-> result]
DirectResult(result) == [wrapper |-> FALSE, status_code |-> 0, result |-> result]
Responses ==
    {IncomingResponse(c, b) : c \in StatusCodes, b \in Bodies}
        \cup {DirectResult(b) : b \in Bodies}

\* a schema of spec_dict['responses'][code]: its 'type', its '$ref' and the
\* '$ref' of its 'items'; NoSchema is a response declared without a schema
Schema(type, ref, items_ref) == [type |-> type, ref |-> ref, items_ref |-> items_ref]
NoSchema == Schema(NoKey, NoKey, NoKey)
ArrayOf(kind) == Schema("array", NoKey, "#/definitions/" \o kind)
RefTo(kind) == Schema(NoKey, "#/definitions/" \o kind, NoKey)
Primitive(type) == Schema(type, NoKey, NoKey)
Schemas ==
    { NoSchema, ArrayOf("Channel"), ArrayOf("Sound"), RefTo("Channel"),
      RefTo("Sound"), Primitive("string"), Primitive("array") }
ResponseKeys == {"200", "201", "204", "default"}
\* operation_spec.spec_dict['responses']: some response keys, each with a schema
OperationSpecs == UNION {[keys -> Schemas] : keys \in SUBSET ResponseKeys}

\* ----------------------------------------------------------------- promote
\* str(status_code); status_code stays None for a direct result
str(status_code) ==
    CASE status_code = 200 -> "200"
      [] status_code = 201 -> "201"
      [] status_code = 204 -> "204"
      [] OTHER -> "None"

\* mutant: the response declared for '200' is looked at first
success_schema_200_first(status_code, responses) ==
    IF "200" \in DOMAIN responses THEN responses["200"]
    ELSE IF str(status_code) \in DOMAIN responses THEN responses[str(status_code)]
    ELSE IF "default" \in DOMAIN responses THEN responses["default"]
    ELSE NoSchema

\* lines 419-424: the schema of the response declared for the status code,
\* else for '200', else for 'default'
success_schema(status_code, responses) ==
    IF str(status_code) \in DOMAIN responses THEN responses[str(status_code)]
    ELSE IF "200" \in DOMAIN responses THEN responses["200"]
    ELSE IF "default" \in DOMAIN responses THEN responses["default"]
    ELSE NoSchema

\* ref_path.split('/')[-1] for the references "#/definitions/<name>"
KindNames ==
    {"Bridge", "Channel", "Endpoint", "Playback", "LiveRecording",
     "StoredRecording", "Mailbox", "DeviceState", "Sound"}
LastSegment(ref_path) == CHOOSE k \in KindNames : ref_path = "#/definitions/" \o k

\* lines 427-440: is_list and response_class_name from the schema
ResponseClass(schema) ==
    IF schema = NoSchema
    THEN [is_list |-> FALSE, response_class_name |-> "Unknown"]
    ELSE IF schema.type = "array" /\ schema.items_ref # NoKey
    THEN [is_list |-> TRUE, response_class_name |-> LastSegment(schema.items_ref)]
    ELSE IF schema.ref # NoKey
    THEN [is_list |-> FALSE, response_class_name |-> LastSegment(schema.ref)]
    ELSE IF schema.type # NoKey
    THEN [is_list |-> FALSE, response_class_name |-> schema.type]
    ELSE [is_list |-> FALSE, response_class_name |-> "Unknown"]

\* CLASS_MAP, each class with the fields its id_generator reads
CLASS_MAP ==
    [k \in {"Bridge", "Channel", "Endpoint", "Playback", "LiveRecording",
            "StoredRecording", "Mailbox", "DeviceState"} |->
        IF k \in {"Bridge", "Channel", "Playback"} THEN <<"id">>
        ELSE IF k = "Endpoint" THEN <<"technology", "resource">>
        ELSE <<"name">>]

\* id_as_str(obj_json): obj_json[id_field], or "%(tech)s/%(resource)s"
id_as_str(id_fields, fields) ==
    IF Len(id_fields) = 1 THEN fields[id_fields[1]]
    ELSE fields[id_fields[1]] \o "/" \o fields[id_fields[2]]

\* factory(client, obj_json): the constructor of CLASS_MAP[kind], which
\* subscripts obj_json by the id fields in BaseObject.__init__
factory(kind, obj_json) ==
    IF obj_json.t # "jdict"
    THEN [raised |-> "TypeError", value |-> None]
    ELSE IF \E i \in 1..Len(CLASS_MAP[kind]) : CLASS_MAP[kind][i] \notin DOMAIN obj_json.fields
    THEN [raised |-> "KeyError", value |-> None]
    ELSE [raised |-> "none",
          value |-> DomainObject(kind, id_as_str(CLASS_MAP[kind], obj_json.fields))]

\* mutant: the comprehension has no `if obj_json is not None`
Comprehension_unfiltered(kind, items) ==
    IF \E j \in 1..Len(items) : factory(kind, items[j]).raised # "none"
    THEN [raised |-> factory(kind, items[CHOOSE j \in 1..Len(items) :
                                 factory(kind, items[j]).raised # "none"]).raised,
          value |-> << >>]
    ELSE [raised |-> "none",
          value |-> [j \in 1..Len(items) |-> factory(kind, items[j]).value]]

\* [factory(client, obj_json) for obj_json in response_data if obj_json is not None]
RECURSIVE Comprehension(_, _)
Comprehension(kind, items) ==
    IF items = << >> THEN [raised |-> "none", value |-> << >>]
    ELSE IF Head(items) = None THEN Comprehension(kind, Tail(items))
    ELSE LET first == factory(kind, Head(items))
             rest == Comprehension(kind, Tail(items))
         IN IF first.raised # "none" THEN [raised |-> first.raised, value |-> << >>]
            ELSE IF rest.raised # "none" THEN rest
            ELSE [raised |-> "none", value |-> <<first.value>> \o rest.value]

\* mutant: the status is compared only when the body is None
IsNoContent_empty_body(status_code, response_data) ==
    status_code = 204 /\ response_data = None

\* `if status_code == 204: return None` (lines 445-446)
IsNoContent(status_code, response_data) == status_code = 204

\* mutant: without a factory promote returns None
NoFactoryResult_none(response_data) == None

\* lines 466-471, no factory: the raw data (None when there is none)
NoFactoryResult(response_data) == response_data

\* mutant: a payload that is not a list is promoted as one object
NotAListResult_as_one(name, response_data) == factory(name, response_data)

\* lines 454-457, a list shape and a payload that is not a list: a warning is
\* logged and None returned
NotAListResult(name, response_data) == [raised |-> "none", value |-> None]

\* mutant: the payload is handed to the constructor without the test for None
SingleResult_unchecked(name, response_data) == factory(name, response_data)

\* lines 458-463, a single object: None for no payload, else the constructor
SingleResult(name, response_data) ==
    IF response_data = None
    THEN [raised |-> "none", value |-> None]
    ELSE factory(name, response_data)

\* promote: the exception raised, or the value returned
promote(bravado_response, operation_spec) ==
    LET status_code == bravado_response.status_code
        response_data == bravado_response.result
        class == ResponseClass(success_schema(status_code, operation_spec))
        name == class.response_class_name
    IN IF IsNoContent(status_code, response_data)
       THEN [raised |-> "none", value |-> None]
       ELSE IF name \in DOMAIN CLASS_MAP
       THEN IF class.is_list
            THEN IF response_data.t = "list"
                 THEN LET made == Comprehension(name, response_data.items)
                      IN IF made.raised # "none"
                         THEN [raised |-> made.raised, value |-> None]
                         ELSE [raised |-> "none", value |-> BodyList(made.value)]
                 ELSE NotAListResult(name, response_data)
            ELSE SingleResult(name, response_data)
       ELSE [raised |-> "none", value |-> NoFactoryResult(response_data)]

\* the operation is one of the Swagger operations loaded at construction
InitPromote == InitClient /\ base_url_bound = FALSE /\ op_spec \in OperationSpecs

\* new_callable of Repository.__getattr__ and BaseObject.__getattr__: the
\* response of the operation is promoted with the operation's spec
new_callable(bravado_response) ==
    /\ Len(promoted) < MaxPromotes
    /\ promoted' = Append(promoted,
          [bravado_response |-> bravado_response,
           operation_spec |-> op_spec,
           result |-> promote(bravado_response, op_spec)])
    /\ UNCHANGED <<event_listeners, exception_handler, unsubscribers, closes, failed,
                   op_spec>>
    /\ UNCHANGED loopvars
    /\ UNCHANGED connvars
    /\ UNCHANGED requestvars

NextPromote == \E bravado_response \in Responses : new_callable(bravado_response)

SpecPromote == InitPromote /\ [][NextPromote]_vars

\* ------------------------------------------------------- claims on promote
\* C20: promoting a response whose status is 204 returns None, whatever
\* responses the operation declares and whatever the body is.
C20_NoContentIsNone ==
    \A i \in 1..Len(promoted) :
        (promoted[i].bravado_response.wrapper
         /\ promoted[i].bravado_response.status_code = 204)
        => promoted[i].result = [raised |-> "none", value |-> None]

\* a 204 response with a record as body was promoted for an operation whose
\* 204 response declares a reference to a kind with a constructor
C20_Witness ==
    \E i \in 1..Len(promoted) :
        /\ promoted[i].bravado_response = IncomingResponse(204, BodyDict([k \in {"id"} |-> "c1"]))
        /\ "204" \in DOMAIN promoted[i].operation_spec
        /\ promoted[i].operation_spec["204"] = RefTo("Channel")
        /\ promoted[i].result.value = None

\* the shape promote call i used, and the response's status and payload
ShapeOf(i) ==
    success_schema(promoted[i].bravado_response.status_code, promoted[i].operation_spec)
StatusOf(i) == promoted[i].bravado_response.status_code
PayloadOf(i) == promoted[i].bravado_response.result
\* the response of call i has content: its status is not 204 (C20)
HasContent(i) == StatusOf(i) # 204
\* a record carrying the identity fields of kind
RecordOf(kind, v) ==
    /\ v.t = "jdict"
    /\ \A f \in 1..Len(CLASS_MAP[kind]) : CLASS_MAP[kind][f] \in DOMAIN v.fields
\* the positions of the non-null elements of a list, and the k-th of them
NonNull(items) == {j \in 1..Len(items) : items[j] # None}
NthNonNull(items, k) ==
    CHOOSE j \in NonNull(items) : Cardinality({x \in NonNull(items) : x < j}) = k - 1

\* C21: for a response with content whose shape declares a list of a kind K
\* that has a constructor, promoting the empty list returns the empty list,
\* and promoting a list whose non-null elements are records of kind K
\* returns one DomainObject of kind K per non-null element, in the same
\* order, each with the identity of its record.
C21_ListPromotion ==
    \A i \in 1..Len(promoted), kind \in DOMAIN CLASS_MAP :
        (/\ ShapeOf(i) = ArrayOf(kind)
         /\ HasContent(i)
         /\ PayloadOf(i).t = "list"
         /\ \A j \in NonNull(PayloadOf(i).items) : RecordOf(kind, PayloadOf(i).items[j]))
        => LET items == PayloadOf(i).items
               result == promoted[i].result
           IN /\ result.raised = "none"
              /\ result.value.t = "list"
              /\ Len(result.value.items) = Cardinality(NonNull(items))
              /\ \A k \in 1..Len(result.value.items) :
                    result.value.items[k] =
                        DomainObject(kind,
                            id_as_str(CLASS_MAP[kind], items[NthNonNull(items, k)].fields))

\* a list of two records around a null element was promoted to the two
\* objects, in order
C21_Witness ==
    \E i \in 1..Len(promoted) :
        /\ ShapeOf(i) = ArrayOf("Channel")
        /\ StatusOf(i) = 200
        /\ PayloadOf(i).t = "list"
        /\ Len(PayloadOf(i).items) = 3 /\ PayloadOf(i).items[2] = None
        /\ promoted[i].result.value =
              BodyList(<<DomainObject("Channel", "c1"), DomainObject("Channel", "c2")>>)

\* the kinds named by DomainObjects in a value promote returned
KindsIn(v) ==
    IF v.t = "object" THEN {v.kind}
    ELSE IF v.t = "list"
    THEN {v.items[j].kind : j \in {x \in 1..Len(v.items) : v.items[x].t = "object"}}
    ELSE {}
\* C22: promote returns no DomainObject of a kind outside CLASS_MAP, and for
\* a response with content whose shape names such a kind, or a primitive
\* type, and whose payload is not None it returns the payload as it is.
C22_UnmodeledPassThrough ==
    \A i \in 1..Len(promoted) :
        /\ KindsIn(promoted[i].result.value) \subseteq
              {"Bridge", "Channel", "Endpoint", "Playback", "LiveRecording",
               "StoredRecording", "Mailbox", "DeviceState"}
        /\ (/\ ShapeOf(i) \in {RefTo("Sound"), ArrayOf("Sound"),
                               Primitive("string"), Primitive("array")}
            /\ HasContent(i)
            /\ PayloadOf(i) # None)
           => promoted[i].result = [raised |-> "none", value |-> PayloadOf(i)]

\* a record was promoted for a shape referencing Sound and came back raw
C22_Witness ==
    \E i \in 1..Len(promoted) :
        /\ ShapeOf(i) = RefTo("Sound")
        /\ StatusOf(i) = 200
        /\ PayloadOf(i) = BodyDict([k \in {"id"} |-> "c1"])
        /\ promoted[i].result.value = PayloadOf(i)

\* C23: promote raises nothing, whatever the payload and the declared
\* responses are.
C23_PromoteNeverRaises ==
    \A i \in 1..Len(promoted) : promoted[i].result.raised = "none"

\* the kinds that have an on_<kind>_event method of Client
OnKindEvent ==
    {"Channel", "Bridge", "Playback", "LiveRecording", "StoredRecording",
     "Endpoint", "DeviceState", "Sound"}

\* C24: for every kind that has an on_<kind>_event method, a response with
\* content whose shape is a single reference to the kind and whose payload
\* is a record with the kind's id is promoted to the DomainObject of that
\* kind and id, as the event path makes it.
C24_EventKindsArePromoted ==
    \A i \in 1..Len(promoted), kind \in OnKindEvent :
        (/\ ShapeOf(i) = RefTo(kind)
         /\ HasContent(i)
         /\ PayloadOf(i).t = "jdict"
         /\ DOMAIN PayloadOf(i).fields = {"id"})
        => /\ promoted[i].result.raised = "none"
           /\ promoted[i].result.value =
                 factory_fn_call(kind, JRecord({"id"}, PayloadOf(i).fields["id"])).obj

\* ------------------------------------------- claim on objects without events
\* the kinds and ids of the domain objects constructed with event_reg None
WithoutEvents == {o \in DomainObjects : o.event_reg = NoKey}

\* C25: every on_event call on a domain object constructed without an
\* event-registration function raises RuntimeError in BaseObject.on_event and
\* leaves the listener map as it was; no listener of such an object is in
\* the map or is invoked.
C25_NoEventsObjectFails ==
    /\ \A j \in 1..Len(failed) :
          failed[j].model_id \in {o.kind : o \in WithoutEvents} =>
              /\ failed[j].op = "BaseObject.on_event"
              /\ failed[j].error = "RuntimeError"
              /\ failed[j].after = failed[j].before
    /\ \A o \in Regs :
          ObjectListener(o) =>
              ClosureOf(o).event_cb.self_id \notin {w.id : w \in WithoutEvents}
    /\ \A c \in CallIds :
          calls[c].cb.event_cb.self_id \notin {w.id : w \in WithoutEvents}

\* with a listener registered, on_event on the Mailbox raised and the map is
\* what it was
C25_Witness ==
    \E j \in 1..Len(failed) :
        /\ failed[j].op = "BaseObject.on_event"
        /\ failed[j].model_id = "Mailbox"
        /\ failed[j].before # << >>
        /\ event_listeners = failed[j].before
        /\ Len(unsubscribers) >= 1

\* ============================================================= request path
\* Client.__getattr__, Repository.__getattr__ and BaseObject.__getattr__
\* (src/ari/client.py, src/ari/model.py): resource collections as attributes
\* of the client, operations as methods of a collection or of a domain
\* object.  The operation callables are the Swagger client's: a call rejects
\* its parameters, or performs a request whose result() raises or returns
\* the response.

\* ------------------------------------------------------------------ bounds
\* attribute accesses and operation calls
MaxInvocations == 2

\* ------------------------------------------------------------------ inputs
\* an operation of a resource: its parameter names and its declared responses
Operation(params, responses) == [params |-> params, responses |-> responses]
\* swagger_spec.resources, as the sample API of the tests declares them:
\* resource name -> operation name -> operation
resources ==
    [r \in {"channels", "endpoints"} |->
        IF r = "channels"
        THEN [o \in {"list", "get", "hangup"} |->
                IF o = "list"
                THEN Operation({}, [k \in {"200"} |-> ArrayOf("Channel")])
                ELSE IF o = "get"
                THEN Operation({"channelId"}, [k \in {"200"} |-> RefTo("Channel")])
                ELSE Operation({"channelId", "reason"}, [k \in {"204"} |-> NoSchema])]
        ELSE [o \in {"list", "get"} |->
                IF o = "list"
                THEN Operation({}, [k \in {"200"} |-> ArrayOf("Endpoint")])
                ELSE Operation({"tech", "resource"},
                               [k \in {"200"} |-> RefTo("Endpoint")])]]

\* attribute names tried on the client, and on a collection or an object
ClientItems == {"channels", "endpoints", "i_am_not_a_resource"}
OperationItems == {"list", "get", "hangup", "i_am_not_a_method"}
\* keyword arguments of a call
CallerKwargs ==
    { NoKwargs,
      [k \in {"channelId"} |-> "c2"],
      [k \in {"reason"} |-> "busy"],
      [k \in {"channelId", "reason"} |-> IF k = "channelId" THEN "c2" ELSE "busy"],
      [k \in {"tech"} |-> "OTHER"],
      [k \in {"i_am_not_a_param"} |-> "asdf"] }
\* domain objects operations are called on: kind, resource, instance data
InstanceObjects ==
    { [kind |-> "Channel", resource |-> "channels", json |-> [k \in {"id"} |-> "c1"]],
      [kind |-> "Endpoint", resource |-> "endpoints",
       json |-> [k \in {"technology", "resource"} |->
                    IF k = "technology" THEN "TEST" ELSE "1234"]] }
\* what the server answers to a request
ServerReplies == {"ok", "HTTPError"}

\* the response body the server sends for an operation that succeeds
ServedBody(resource, item) ==
    LET record == IF resource = "channels"
                  THEN BodyDict([k \in {"id"} |-> "c1"])
                  ELSE BodyDict([k \in {"technology", "resource"} |->
                                    IF k = "technology" THEN "TEST" ELSE "1234"])
    IN IF item = "list" THEN BodyList(<<record>>)
       ELSE IF item = "get" THEN record
       ELSE None
\* the response http_future.result() returns
ServedResponse(resource, item) ==
    IncomingResponse(IF item = "hangup" THEN 204 ELSE 200, ServedBody(resource, item))

\* ------------------------------------------------------------- __getattr__
\* what an attribute access or a call gives: an exception, or a value
Raised(error) == [raised |-> error, value |-> None]
Returned(value) == [raised |-> "none", value |-> value]

\* getattr(self.bravado_resource, item, None) is callable
IsOperation(resource, item) == item \in DOMAIN resources[resource]

\* Client.__getattr__(item): the repository of that name, or AttributeError
Client__getattr__(item) ==
    IF item \in DOMAIN resources
    THEN Returned([t |-> "Repository", name |-> item])
    ELSE Raised("AttributeError")

\* mutant: an unknown name gives a callable that does nothing
Repository__getattr___inert(name, item) ==
    Returned([t |-> "callable", fn |-> "new_callable", resource |-> name, item |-> item])

\* Repository.__getattr__(item): new_callable for an operation of the
\* resource, or AttributeError
Repository__getattr__(name, item) ==
    IF ~IsOperation(name, item)
    THEN Raised("AttributeError")
    ELSE Returned([t |-> "callable", fn |-> "new_callable",
                   resource |-> name, item |-> item])

\* BaseObject.__getattr__(item): enrich_operation for an operation of the
\* object's resource, or AttributeError
BaseObject__getattr__(self, item) ==
    IF ~IsOperation(self.resource, item)
    THEN Raised("AttributeError")
    ELSE Returned([t |-> "callable", fn |-> "enrich_operation",
                   resource |-> self.resource, item |-> item])

\* one entry of the history of accesses and calls
Invocation_(target, name, item, called, kwargs, reply, promote_applied, result) ==
    [target |-> target, name |-> name, item |-> item, called |-> called,
     kwargs |-> kwargs, reply |-> reply, promote_applied |-> promote_applied,
     requests_before |-> Len(http_requests), requests_after |-> Len(http_requests'),
     result |-> result]

\* the variables the request path leaves alone
notrequestvars ==
    <<event_listeners, exception_handler, unsubscribers, closes, loopvars, failed,
      connvars, op_spec, promoted>>

\* an attribute access that is not followed by a call
Access(target, name, item, result) ==
    /\ UNCHANGED http_requests
    /\ invocations' = Append(invocations,
          Invocation_(target, name, item, FALSE, NoKwargs, "none", FALSE, result))
    /\ UNCHANGED notrequestvars

Client_getattr(item) ==
    /\ Len(invocations) < MaxInvocations
    /\ Access("client", "client", item, Client__getattr__(item))
Repository_getattr(name, item) ==
    /\ Len(invocations) < MaxInvocations
    /\ Access("repository", name, item, Repository__getattr__(name, item))
BaseObject_getattr(self, item) ==
    /\ Len(invocations) < MaxInvocations
    /\ Access("object", self.kind, item, BaseObject__getattr__(self, item))

\* ------------------------------------------------------------------- calls
\* bravado_operation_callable(**kwargs) raises before any request: a
\* parameter the operation does not declare is rejected at the call (and
\* what is no operation cannot be called)
Rejects(resource, item, kwargs) ==
    IF IsOperation(resource, item)
    THEN ~(DOMAIN kwargs \subseteq resources[resource][item].params)
    ELSE TRUE

\* mutant: the error of the transport is replaced by another
Propagated_translated(error) == "RuntimeError"

\* the exception the caller gets when the callable or result() raises: there
\* is no try around them
Propagated(error) == error

\* The body of new_callable and of enrich_operation after the parameters are
\* settled: the call of the operation, result(), promote.
CallOperation(target, name, resource, item, caller_kwargs, kwargs, reply) ==
    /\ Len(invocations) < MaxInvocations
    /\ IF Rejects(resource, item, kwargs)
       THEN /\ UNCHANGED http_requests
            /\ invocations' = Append(invocations,
                  Invocation_(target, name, item, TRUE, caller_kwargs, "TypeError",
                              FALSE, Raised(Propagated("TypeError"))))
       ELSE /\ http_requests' = Append(http_requests,
                  [resource |-> resource, item |-> item, params |-> kwargs])
            /\ IF reply = "ok"
               THEN invocations' = Append(invocations,
                       Invocation_(target, name, item, TRUE, caller_kwargs, "ok", TRUE,
                                   promote(ServedResponse(resource, item),
                                           resources[resource][item].responses)))
               ELSE invocations' = Append(invocations,
                       Invocation_(target, name, item, TRUE, caller_kwargs, reply,
                                   FALSE, Raised(Propagated(reply))))
    /\ UNCHANGED notrequestvars

\* new_callable(**kwargs) of Repository.__getattr__
Repository_new_callable(name, item, kwargs, reply) ==
    /\ Repository__getattr__(name, item).raised = "none"
    /\ CallOperation("repository", name, name, item, kwargs, kwargs, reply)

\* id_generator.get_params(self.json): DefaultObjectIdGenerator('channelId')
\* for Channel, EndpointIdGenerator for Endpoint
get_params(self) ==
    IF self.kind = "Endpoint"
    THEN [k \in {"tech", "resource"} |->
             IF k = "tech" THEN self.json["technology"] ELSE self.json["resource"]]
    ELSE [k \in {"channelId"} |-> self.json["id"]]

\* mutant: the caller's value is kept for a name the caller gave
dict_update_setdefault(kwargs, params) ==
    [k \in DOMAIN kwargs \cup DOMAIN params |->
        IF k \in DOMAIN kwargs THEN kwargs[k] ELSE params[k]]

\* kwargs.update(params)
dict_update(kwargs, params) ==
    [k \in DOMAIN kwargs \cup DOMAIN params |->
        IF k \in DOMAIN params THEN params[k] ELSE kwargs[k]]

\* enrich_operation(**kwargs) of BaseObject.__getattr__
enrich_operation(self, item, kwargs, reply) ==
    /\ BaseObject__getattr__(self, item).raised = "none"
    /\ CallOperation("object", self.kind, self.resource, item, kwargs,
                     dict_update(kwargs, get_params(self)), reply)

NextRequest ==
    \/ \E item \in ClientItems : Client_getattr(item)
    \/ \E name \in DOMAIN resources, item \in OperationItems :
          Repository_getattr(name, item)
    \/ \E self \in InstanceObjects, item \in OperationItems :
          BaseObject_getattr(self, item)
    \/ \E name \in DOMAIN resources, item \in OperationItems,
          kwargs \in CallerKwargs, reply \in ServerReplies :
          Repository_new_callable(name, item, kwargs, reply)
    \/ \E self \in InstanceObjects, item \in OperationItems,
          kwargs \in CallerKwargs, reply \in ServerReplies :
          enrich_operation(self, item, kwargs, reply)

SpecRequest == Init /\ [][NextRequest]_vars

\* ------------------------------------------------ claims on the request path
Invocations == 1..Len(invocations)
\* invocation i names something the API does not have: a resource
\* collection on the client, an operation on a collection or on an object
UnknownName(i) ==
    IF invocations[i].target = "client"
    THEN invocations[i].item \notin DOMAIN resources
    ELSE LET resource == IF invocations[i].target = "repository"
                         THEN invocations[i].name
                         ELSE (CHOOSE o \in InstanceObjects :
                                  o.kind = invocations[i].name).resource
         IN invocations[i].item \notin DOMAIN resources[resource]
\* invocation i performed a request
Requested(i) == invocations[i].requests_after > invocations[i].requests_before

\* C26: an access to an unknown resource collection of the client, to an
\* unknown operation of a collection or to an unknown operation of a domain
\* object raises AttributeError at the access: nothing is returned, nothing
\* is called and no request is performed.
C26_UnknownNameFails ==
    \A i \in Invocations :
        UnknownName(i) =>
            /\ invocations[i].result = Raised("AttributeError")
            /\ ~invocations[i].called
            /\ ~Requested(i)

\* an unknown operation was tried on a collection and another on a domain
\* object; both raised
C26_Witness ==
    \E i, j \in Invocations :
        /\ invocations[i].target = "repository" /\ invocations[j].target = "object"
        /\ invocations[i].item = "i_am_not_a_method"
        /\ invocations[j].item = "hangup" /\ invocations[j].name = "Endpoint"
        /\ invocations[i].result.raised = "AttributeError"
        /\ invocations[j].result.raised = "AttributeError"
        /\ http_requests = << >>

\* C27: when the operation callable rejects the parameters or result()
\* raises for the response, the collection or instance operation raises that
\* same error to its caller: it returns nothing and promote is not applied.
C27_TransportErrorPropagates ==
    \A i \in Invocations :
        (invocations[i].called /\ invocations[i].reply \in {"TypeError", "HTTPError"})
        => /\ invocations[i].result = Raised(invocations[i].reply)
           /\ ~invocations[i].promote_applied

\* a collection operation was refused its parameter without a request, and
\* an instance operation's request failed
C27_Witness ==
    \E i, j \in Invocations :
        /\ invocations[i].target = "repository" /\ invocations[i].reply = "TypeError"
        /\ "i_am_not_a_param" \in DOMAIN invocations[i].kwargs
        /\ ~Requested(i)
        /\ invocations[j].target = "object" /\ invocations[j].reply = "HTTPError"
        /\ Requested(j)
        /\ invocations[j].result.raised = "HTTPError"

\* the object invocation i was made on
SelfOf(i) == CHOOSE o \in InstanceObjects : o.kind = invocations[i].name

\* C28: the request of an instance operation carries, for every name the
\* object's identity strategy produces, the identity's value, also when the
\* caller gave that name, and every other parameter of the caller as given.
C28_IdentityParamsOverride ==
    \A i \in Invocations :
        (invocations[i].target = "object" /\ Requested(i)) =>
            LET params == http_requests[invocations[i].requests_after].params
                identity == get_params(SelfOf(i))
                given == invocations[i].kwargs
            IN /\ DOMAIN params = DOMAIN identity \cup DOMAIN given
               /\ \A k \in DOMAIN identity : params[k] = identity[k]
               /\ \A k \in DOMAIN given \ DOMAIN identity : params[k] = given[k]

\* hangup was called on channel c1 with channelId c2 and a reason: the
\* request is for c1, with the reason
C28_Witness ==
    \E i \in Invocations :
        /\ invocations[i].target = "object" /\ invocations[i].item = "hangup"
        /\ Requested(i)
        /\ DOMAIN invocations[i].kwargs = {"channelId", "reason"}
        /\ invocations[i].kwargs["channelId"] = "c2"
        /\ http_requests[invocations[i].requests_after].params["channelId"] = "c1"
        /\ http_requests[invocations[i].requests_after].params["reason"] = "busy"
        /\ invocations[i].reply = "ok"

\* ------------------------------------- claim on object listeners' arguments
\* the identities of the objects the closure of registration o extracts from
\* message m
ExtractedIds(o, m) ==
    LET x == Extracted(o, m)
    IN IF x.raised # "none" THEN {}
       ELSE IF x.passed.t = "object" THEN {x.passed.id}
       ELSE IF x.passed.t = "dict" THEN {x.passed.map[f].id : f \in DOMAIN x.passed.map}
       ELSE {}

\* message m is an event for the domain object of registration o
MatchingEvent(o, m) ==
    /\ ObjectListener(o)
    /\ Registered(o, m)
    /\ ClosureOf(o).event_cb.self_id \in ExtractedIds(o, m)

\* the arguments fn is called with by fn_filter in the invocation `call`:
\* fn(objects, event, *args, **kwargs)
FnArguments(call) ==
    [objects |-> Invocation(call).passed, event |-> call.msg,
     args |-> call.args, kwargs |-> call.kwargs]

\* C29: each registration made through a domain object's on_event is a
\* separate registration, also when the same callback is registered several
\* times for the same event type: for a matching event whose dispatch ran to
\* its end the callback is invoked once per such registration, in
\* registration order, each time as (object, raw event, that registration's
\* own positional and keyword arguments).
C29_OneInvocationPerRegistration ==
    /\ \A o \in Regs, m \in Msgs :
          (MatchingEvent(o, m) /\ DispatchDone(m)) =>
              /\ Cardinality(FnCalls(o, m)) = 1
              /\ \A c \in FnCalls(o, m) :
                    FnArguments(calls[c]) =
                        [objects |-> Extracted(o, m).passed,
                         event |-> json_loads(received[m]).value,
                         args |-> unsubscribers[o].callback_obj.args,
                         kwargs |-> unsubscribers[o].callback_obj.kwargs]
    /\ \A c, d \in CallIds :
          (calls[c].m = calls[d].m /\ calls[c].oid < calls[d].oid) => c < d

\* ------------------------------------------------ claim on the receive loop
\* the loop went on from message m to its next blocking receive
NextReceiveAfter(m) == m < Len(received) \/ (m = Len(received) /\ pc = "recv")

\* C30: the receive loop never reads the next message while a listener
\* invocation for the current message is pending: when the loop is at the
\* next blocking receive, every listener of the current message's snapshot
\* has been invoked and every invocation has run to completion or has been
\* routed to the exception handler.
C30_DispatchBeforeNextReceive ==
    \A m \in Msgs :
        NextReceiveAfter(m) =>
            /\ \A o \in Regs : Registered(o, m) => CallsOf(o, m) # {}
            /\ \A c \in CallIds :
                  calls[c].m = m =>
                      /\ calls[c].state \in {"returned", "raised"}
                      /\ calls[c].state = "raised" =>
                            \E h \in 1..Len(handled) : handled[h].call = c

\* the first message had two listeners in its snapshot, one raised and went
\* to the exception handler, the other returned, and the second message
\* has been read
C30_Witness ==
    /\ Len(received) = 2
    /\ \E c, d \in CallIds :
          /\ calls[c].m = 1 /\ calls[d].m = 1 /\ c < d
          /\ calls[c].state = "raised" /\ calls[d].state = "returned"
          /\ \E h \in 1..Len(handled) : handled[h].call = c

\* ------------------------------------------- claims on the shape promote uses
\* the response keys promote looks for in call i, in its order of preference
PreferredKeys(i) == <<str(StatusOf(i)), "200", "default">>
\* the responses the operation of call i declares
DeclaredResponses(i) == promoted[i].operation_spec
\* one of the preferred keys is declared; the first that is
AnyDeclared(i) == \E j \in 1..3 : PreferredKeys(i)[j] \in DOMAIN DeclaredResponses(i)
FirstDeclared(i) ==
    PreferredKeys(i)[CHOOSE j \in 1..3 :
        /\ PreferredKeys(i)[j] \in DOMAIN DeclaredResponses(i)
        /\ \A h \in 1..(j - 1) : PreferredKeys(i)[h] \notin DOMAIN DeclaredResponses(i)]

C32_NotAListIsNone ==
    \A i \in 1..Len(promoted), kind \in DOMAIN CLASS_MAP :
        (/\ ShapeOf(i) = ArrayOf(kind)
         /\ HasContent(i)
         /\ PayloadOf(i).t # "list")
        => promoted[i].result = [raised |-> "none", value |-> None]

\* a record was received where the operation declares a list of channels
C32_Witness ==
    \E i \in 1..Len(promoted) :
        /\ ShapeOf(i) = ArrayOf("Channel")
        /\ StatusOf(i) = 200
        /\ PayloadOf(i) = BodyDict([k \in {"id"} |-> "c1"])
        /\ promoted[i].result = [raised |-> "none", value |-> None]

\* C33: for a response with content whose shape declares a single reference
\* to a kind K that has a constructor, promoting a record of kind K returns
\* exactly one DomainObject of kind K with the identity of that record, and
\* promoting a null payload returns None.
C33_SinglePromotion ==
    \A i \in 1..Len(promoted), kind \in DOMAIN CLASS_MAP :
        (ShapeOf(i) = RefTo(kind) /\ HasContent(i)) =>
            /\ RecordOf(kind, PayloadOf(i)) =>
                  promoted[i].result =
                      [raised |-> "none",
                       value |-> DomainObject(kind,
                                    id_as_str(CLASS_MAP[kind], PayloadOf(i).fields))]
            /\ PayloadOf(i) = None =>
                  promoted[i].result = [raised |-> "none", value |-> None]

\* a response with status 200 and a channel record, of an operation that
\* declares a Channel for "200", was promoted to the Channel of that record
C33_Witness ==
    \E i \in 1..Len(promoted) :
        /\ DeclaredResponses(i) = [k \in {"200"} |-> RefTo("Channel")]
        /\ StatusOf(i) = 200
        /\ PayloadOf(i) = BodyDict([k \in {"id"} |-> "c1"])
        /\ promoted[i].result = [raised |-> "none", value |-> DomainObject("Channel", "c1")]

\* ---------------------------------------------- claims on re-subscription
\* L1 was registered by call o1, L2 by call o2, and call o3 subscribed L1
\* again to the same event type while the registration of o1 was in the
\* list; message m arrived with the registrations of o2 and o3 in the list
Resubscribed(o1, o2, o3, m) ==
    /\ o1 < o2 /\ o2 < o3
    /\ unsubscribers[o1].event_type = unsubscribers[o3].event_type
    /\ unsubscribers[o2].event_type = unsubscribers[o3].event_type
    /\ unsubscribers[o1].callback_obj.cb = unsubscribers[o3].callback_obj.cb
    /\ unsubscribers[o2].callback_obj.cb # unsubscribers[o3].callback_obj.cb
    /\ o1 \in unsubscribers[o3].replaced
    /\ Registered(o2, m) /\ Registered(o3, m)

\* After L1, L2, L1 again: for a later message of the type L1 is not invoked
\* through its first registration; an invocation of L1 comes after the
\* invocation of L2 and carries the arguments of the latest subscription;
\* both are invoked once when the message is behind the loop.
C34_Resubscription(aborted_too) ==
    \A o1, o2, o3 \in Regs, m \in Msgs :
        Resubscribed(o1, o2, o3, m) =>
            /\ CallsOf(o1, m) = {}
            /\ Cardinality(CallsOf(o2, m)) <= 1 /\ Cardinality(CallsOf(o3, m)) <= 1
            /\ \A c \in CallsOf(o3, m) :
                  /\ calls[c].args = unsubscribers[o3].callback_obj.args
                  /\ calls[c].kwargs = unsubscribers[o3].callback_obj.kwargs
                  /\ \E d \in CallsOf(o2, m) : d < c /\ calls[d].state # "running"
            /\ Over(m, aborted_too) =>
                  CallsOf(o2, m) # {} /\ CallsOf(o3, m) # {}

SubscribedInDispatch(o) ==
    IF unsubscribers[o].in_call > 0
    THEN unsubscribers[o].event_type = calls[unsubscribers[o].in_call].msg.type
    ELSE FALSE
DispatchOf(o) == calls[unsubscribers[o].in_call].m

\* A registration made for type T during the dispatch of message M of type T
\* is not used for M, and its callback, unless a registration of it was in
\* the list when M arrived, is not invoked for M; the registration is used
\* at most once for a later message, and once for each later message of type
\* T behind the loop that it is still registered for.
C35_Subscription(aborted_too) ==
    \A o \in Regs :
        SubscribedInDispatch(o) =>
            LET M == DispatchOf(o)
                t == unsubscribers[o].event_type
                cb == unsubscribers[o].callback_obj.cb
            IN /\ CallsOf(o, M) = {}
               /\ (\A v \in Regs : IsListener(v, t, cb) => ~Registered(v, M)) =>
                     ListenerCalls(t, cb, M) = {}
               /\ \A m \in Msgs :
                     /\ Cardinality(CallsOf(o, m)) <= 1
                     /\ (m > M /\ Registered(o, m) /\ Over(m, aborted_too)) =>
                           Cardinality(CallsOf(o, m)) = 1

FrameCallbacks == {"L1"}

\* The caller subscribes before, between and inside its run calls; the
\* listener callbacks close the Unsubscribers.
NextFrame ==
    \/ \E apps \in Apps : Client_run(apps)
    \/ \E result \in RecvResults : ws_recv(result)
    \/ conn_callback_return
    \/ \E close_raises \in BOOLEAN : run_finally(close_raises)
    \/ \E t \in EventTypes, cb \in FrameCallbacks :
          ConnCallerRuns /\ on_event(t, cb, NoBound)
    \/ \E u \in 1..Len(unsubscribers) :
          frames # << >> /\ ConnCallerRuns /\ EventUnsubscriber_close(u)

SpecFrame == InitConn /\ [][NextFrame]_vars

\* ------------------------------------------------------------------ claim
\* the step changes, of the listener map, at most the list of event_type,
\* and leaves the open-connection set as it is
OnlyListOf(event_type) ==
    /\ DOMAIN event_listeners' \subseteq DOMAIN event_listeners \cup {event_type}
    /\ \A t \in DOMAIN event_listeners \ {event_type} :
          t \in DOMAIN event_listeners' /\ event_listeners'[t] = event_listeners[t]
    /\ websockets' = websockets

\* C36: on_event for event type T and the close of an Unsubscriber created
\* for T change only T's listener sequence: the sequences of the other event
\* types and the open-connection set are what they were.
C36_OnlyOwnTypeChanges ==
    [][/\ Len(unsubscribers') > Len(unsubscribers) =>
             OnlyListOf(unsubscribers'[Len(unsubscribers')].event_type)
       /\ Len(closes') > Len(closes) =>
             OnlyListOf(unsubscribers[closes'[Len(closes')].u].event_type)]_vars

\* in a run call that holds the one connection opened so far, a callback
\* closed an Unsubscriber of one event type, which took its registration out;
\* the registration of the other type and the connection are still there
C36_Witness ==
    /\ Len(runs) = 1 /\ Len(frames) = 1 /\ websockets = {1}
    /\ \E j \in 1..Len(closes), t \in DOMAIN event_listeners :
          /\ closes[j].changed
          /\ t # unsubscribers[closes[j].u].event_type
          /\ event_listeners[t] # << >>
          /\ event_listeners[unsubscribers[closes[j].u].event_type] = << >>

\* ------------------------------------- claim on events without the object
\* C37: for a listener registered through a domain object's on_event for
\* type T, an event of type T from which nothing is extracted (every declared
\* field of the kind absent or null, the extracted value None) leaves the
\* callback uninvoked and routes no error to the exception handler.
C37_NoObjectNoError ==
    \A o \in Regs, m \in Msgs :
        (/\ ObjectListener(o)
         /\ Registered(o, m)
         /\ Extracted(o, m).raised = "none"
         /\ Extracted(o, m).passed = None) =>
            /\ FnCalls(o, m) = {}
            /\ \A c \in CallsOf(o, m) :
                  /\ calls[c].state # "raised"
                  /\ \A h \in 1..Len(handled) : handled[h].call # c

\* ------------------------------------------ claim on a raising handler
\* the frame of run call r, if the call is in progress, is in its finally
\* block: the loop receives and dispatches nothing more
LoopLeft(r) == \A f \in 1..Len(frames) : frames[f].run = r => frames[f].at = "finally"

EndpointRecords ==
    { BodyDict([k \in {"technology", "resource"} |->
                   IF k = "technology" THEN tech ELSE resource]) :
        tech \in {"PJSIP", "Local", "a", "a/b"},
        resource \in {"alice", "1000", "c", "b/c"} }

\* the response of endpoints.list: two endpoint records
EndpointResponses ==
    { IncomingResponse(200, BodyList(<<e1, e2>>)) : e1, e2 \in EndpointRecords }

\* the operation declares a list of Endpoint, for "200" or as the default
InitEndpoint ==
    /\ InitClient
    /\ base_url_bound = FALSE
    /\ op_spec \in {[k \in {key} |-> ArrayOf("Endpoint")] : key \in {"200", "default"}}

NextEndpoint == \E bravado_response \in EndpointResponses : new_callable(bravado_response)

SpecEndpoint == InitEndpoint /\ [][NextEndpoint]_vars

\* ------------------------------------------------------------------- claim
\* C39: the identity of an Endpoint is unique within the kind: two endpoint
\* records with different (technology, resource) pairs never get the same
\* identity, and two records with the same pair get the same identity.
C39_EndpointIdentityUnique ==
    \A i \in 1..Len(promoted) :
        LET records == PayloadOf(i).items
            objects == promoted[i].result.value.items
        IN /\ promoted[i].result.raised = "none"
           /\ Len(objects) = Len(records)
           /\ \A a, b \in 1..Len(records) :
                 (objects[a].id = objects[b].id) <=>
                     (/\ records[a].fields["technology"] = records[b].fields["technology"]
                      /\ records[a].fields["resource"] = records[b].fields["resource"])
====
